---- MODULE Spec2Model ----
(***************************************************************************)
(* A model of the patrol error-analysis core: the in-memory cache          *)
(* (cache.py, InMemoryCache) and the single-flight request path of the     *)
(* engine (engine.py, ErrorAnalysisEngine.process_error_log).              *)
(*                                                                         *)
(* Time is a discrete clock `now` (time.time()); a Python dict is a        *)
(* sequence of items in its iteration order (first insertion since the     *)
(* key was last removed).                                                  *)
(***************************************************************************)
EXTENDS Integers, Sequences, FiniteSets, TLC

\* ------------------------------------------------------------------ bounds
Keys == {"k1", "k2", "k3"}
Values == {"r1", "r2"}
Errors == {"e1"}
\* what _build_repository_context raises on a malformed numeric setting
ConfigErrors == {"ValueError"}
\* what the statement after set_result raises when it fails
LogErrors == {"AttributeError"}
Policies == {"LRU", "FIFO"}
Threads == {"t1", "t2"}
None == "None"

MaxTime == 2      \* the clock runs 0..MaxTime
MaxCalls == 4     \* direct get/set calls of the cache API (hits + misses + writes)
MaxWork == 3      \* cache reads and analyzer calls the engine's requests may add up to
EngineCap == 1    \* max_size of the cache the engine is built with
MaxRace == 1      \* cache calls each thread makes in parallel with the other
MaxBatch == 3     \* events given to process_error_batch

TTLs == {1}
\* the sizes given to InMemoryCache(max_size=...) and set_max_size
Sizes == {0, 1, 2}
\* the cache keys the engine derives from its events
EngineKeys == {"k1", "k2"}
\* a Future is identified by a slot; a slot is reused once nothing refers to it
TicketIds == 1..Cardinality(Threads)

VARIABLES
    cache,            \* InMemoryCache.cache: dict key -> (value, expires_at), in dict order
    access_order,     \* InMemoryCache.access_order: key -> last access time
    max_size,         \* InMemoryCache.max_size
    eviction_policy,  \* InMemoryCache.eviction_policy
    hits, misses, writes,
    now,              \* time.time()
    last,             \* the latest direct call of the cache API or of the routing: operation,
                      \* arguments, return value
    inflight,         \* ErrorAnalysisEngine._inflight: cache key -> Future
    futures,          \* the Future objects: state and result/exception
    llm_calls,        \* number of llm_provider.analyze_error invocations
    pc,               \* where each thread is inside process_error_log
    cache_key,        \* per thread: cache_key
    options,          \* per thread: options (skip_cache, cache_ttl)
    inflight_future,  \* per thread: inflight_future
    is_owner,         \* per thread: is_owner
    repository_context, \* per thread: repository_context
    analysis,         \* per thread: what the owner's try block produced: analyze_error's
                      \* result, or the exception raised inside the block
    ret,              \* per thread: what process_error_log returned or raised
    touched,          \* per thread: the changes its current request made to the entry table
    frame,            \* per thread: the frame of the InMemoryCache method it is running
    batch,            \* process_error_batch: events, position of the loop, results
    error_log,        \* the ErrorLog records given to hash_error_log
    normalized,       \* what hash_error_log returned for each of them
    event,            \* per thread: the ErrorLogEvent it was given
    repo_url_map,     \* REPOSITORY_URL_MAP as parsed by the handler
    default_repo_url, \* DEFAULT_REPOSITORY_URL
    inflight_lock,    \* ErrorAnalysisEngine._inflight_lock: the thread holding it, or None
    openai,           \* OpenAILLMProvider._call_openai: the provider's client and the call's frame
    request           \* lambda_handler._parse_event: the event given and the events parsed from it

cacheVars == <<cache, access_order, max_size, eviction_policy, hits, misses, writes>>
threadVars == <<pc, cache_key, options, inflight_future, is_owner, repository_context,
                analysis, ret, touched>>
engineVars == <<inflight, futures, llm_calls, pc, cache_key, options,
                inflight_future, is_owner, repository_context, analysis, ret, touched>>
hashVars == <<error_log, normalized>>
routeVars == <<event, repo_url_map, default_repo_url>>
otherVars == <<frame, batch, error_log, normalized, event, repo_url_map, default_repo_url,
               inflight_lock, openai, request>>
vars == <<cache, access_order, max_size, eviction_policy, hits, misses, writes, now, last,
          inflight, futures, llm_calls, pc, cache_key, options,
          inflight_future, is_owner, repository_context, analysis, ret, touched,
          frame, batch, error_log, normalized, event, repo_url_map, default_repo_url,
          inflight_lock, openai, request>>

\* ------------------------------------------------------------ Python dicts
DictKeys(d) == [i \in 1..Len(d) |-> d[i].key]
KeySet(d) == {d[i].key : i \in 1..Len(d)}
Has(d, k) == k \in KeySet(d)
Item(d, k) == d[CHOOSE i \in 1..Len(d) : d[i].key = k]
IndexOf(d, k) == CHOOSE i \in 1..Len(d) : d[i].key = k
\* an assignment that moves an existing key to the end
DictSetMovesToBack(d, k, item) == Append(SelectSeq(d, LAMBDA e : e.key # k), item)

\* d[k] = item: an existing key keeps its place, a new key goes last
DictSet(d, k, item) ==
    IF Has(d, k)
    THEN [i \in 1..Len(d) |-> IF d[i].key = k THEN item ELSE d[i]]
    ELSE Append(d, item)
\* del d[k] for every k in S
DictDel(d, S) == SelectSeq(d, LAMBDA e : e.key \notin S)

MapSet(m, k, v) == [x \in (DOMAIN m) \cup {k} |-> IF x = k THEN v ELSE m[x]]
MapDel(m, S) == [x \in (DOMAIN m) \ S |-> m[x]]
\* access_order.get(k, 0)
AccessOf(acc, k) == IF k \in DOMAIN acc THEN acc[k] ELSE 0

\* sorted(keys, key=access_order.get(k, 0)): Python's sort is stable
RECURSIVE SortedByAccess(_, _)
SortedByAccess(ks, acc) ==
    IF ks = <<>> THEN <<>>
    ELSE LET rest == SortedByAccess(SubSeq(ks, 1, Len(ks) - 1), acc)
             x == ks[Len(ks)]
             p == Cardinality({i \in 1..Len(rest) : AccessOf(acc, rest[i]) <= AccessOf(acc, x)})
         IN  SubSeq(rest, 1, p) \o <<x>> \o SubSeq(rest, p + 1, Len(rest))

\* ------------------------------------------------------------ InMemoryCache
\* a capacity taken as given, also when it is below 1
ClampNothing(size) == size

\* max(1, size)
Clamp(size) == IF size < 1 THEN 1 ELSE size

\* an eviction order that starts from the newest key
EvictOrderNewestFirst(d, acc, policy) ==
    [i \in 1..Len(d) |-> d[Len(d) + 1 - i].key]

\* an eviction order that ignores the access times
EvictOrderIgnoresAccess(d, acc, policy) == DictKeys(d)

\* an eviction order that follows the access times under either policy
EvictOrderAlwaysLRU(d, acc, policy) == SortedByAccess(DictKeys(d), acc)

\* the order in which _evict_if_needed removes keys from table d
EvictOrder(d, acc, policy) ==
    IF policy = "LRU" THEN SortedByAccess(DictKeys(d), acc) ELSE DictKeys(d)

\* an eviction that lets the table run one entry over capacity
EvictedKeysOffByOne(d, acc, max, policy) ==
    IF Len(d) <= max + 1 THEN {}
    ELSE LET to_evict == Len(d) - max - 1
             order == EvictOrder(d, acc, policy)
         IN  {order[i] : i \in 1..to_evict}

\* the keys _evict_if_needed removes from table d
EvictedKeys(d, acc, max, policy) ==
    IF Len(d) <= max THEN {}
    ELSE LET to_evict == Len(d) - max
             order == EvictOrder(d, acc, policy)
         IN  {order[i] : i \in 1..to_evict}

\* _evict_if_needed applied to table d and access map acc under capacity max
evict_if_needed(d, acc, max) ==
    LET gone == EvictedKeys(d, acc, max, eviction_policy)
    IN  /\ cache' = DictDel(d, gone)
        /\ access_order' = MapDel(acc, gone)

\* an expiry check that never fires
ExpiredNever(item) == FALSE

\* time.time() > expires_at
Expired(item) == now > item.expires_at

\* what get(key) returns
GetResult(key) ==
    IF ~Has(cache, key) THEN None
    ELSE IF Expired(Item(cache, key)) THEN None
    ELSE Item(cache, key).value

\* a get that forgets to count the miss of an expired entry
getExpiredUncounted(key) ==
    /\ IF ~Has(cache, key)
       THEN /\ misses' = misses + 1
            /\ UNCHANGED <<cache, access_order, hits>>
       ELSE IF Expired(Item(cache, key))
       THEN /\ cache' = DictDel(cache, {key})
            /\ access_order' = MapDel(access_order, {key})
            /\ UNCHANGED <<hits, misses>>
       ELSE /\ access_order' = MapSet(access_order, key, now)
            /\ hits' = hits + 1
            /\ UNCHANGED <<cache, misses>>
    /\ UNCHANGED <<max_size, eviction_policy, writes>>

get(key) ==
    /\ IF ~Has(cache, key)
       THEN /\ misses' = misses + 1
            /\ UNCHANGED <<cache, access_order, hits>>
       ELSE IF Expired(Item(cache, key))
       THEN /\ cache' = DictDel(cache, {key})
            /\ access_order' = MapDel(access_order, {key})
            /\ misses' = misses + 1
            /\ UNCHANGED hits
       ELSE /\ access_order' = MapSet(access_order, key, now)
            /\ hits' = hits + 1
            /\ UNCHANGED <<cache, misses>>
    /\ UNCHANGED <<max_size, eviction_policy, writes>>

set(key, value, ttl) ==
    /\ evict_if_needed(
           DictSet(cache, key, [key |-> key, value |-> value, expires_at |-> now + ttl]),
           MapSet(access_order, key, now),
           max_size)
    /\ writes' = writes + 1
    /\ UNCHANGED <<max_size, eviction_policy, hits, misses>>

\* a delete that spares an entry whose time has run out
deleteUnexpiredOnly(key) ==
    /\ IF Has(cache, key) /\ ~Expired(Item(cache, key))
       THEN /\ cache' = DictDel(cache, {key})
            /\ access_order' = MapDel(access_order, {key})
       ELSE UNCHANGED <<cache, access_order>>
    /\ UNCHANGED <<max_size, eviction_policy, hits, misses, writes>>

delete(key) ==
    /\ cache' = DictDel(cache, {key})
    /\ access_order' = MapDel(access_order, {key})
    /\ UNCHANGED <<max_size, eviction_policy, hits, misses, writes>>

ExpiredKeys == {k \in KeySet(cache) : Expired(Item(cache, k))}

\* a sweep that also takes the entries that expire at this very moment
clear_expired_inclusive ==
    LET due == {k \in KeySet(cache) : now >= Item(cache, k).expires_at}
    IN  /\ cache' = DictDel(cache, due)
        /\ access_order' = MapDel(access_order, due)
        /\ UNCHANGED <<max_size, eviction_policy, hits, misses, writes>>

clear_expired ==
    /\ cache' = DictDel(cache, ExpiredKeys)
    /\ access_order' = MapDel(access_order, ExpiredKeys)
    /\ UNCHANGED <<max_size, eviction_policy, hits, misses, writes>>

set_max_size(size) ==
    /\ max_size' = Clamp(size)
    /\ evict_if_needed(cache, access_order, Clamp(size))
    /\ UNCHANGED <<eviction_policy, hits, misses, writes>>

\* InMemoryCache(max_size, eviction_policy)
CacheInit ==
    /\ cache = <<>>
    /\ access_order = <<>>
    /\ \E size \in Sizes : max_size = Clamp(size)
    /\ eviction_policy \in Policies
    /\ hits = 0 /\ misses = 0 /\ writes = 0

\* ------------------------------------------------------ ErrorAnalysisEngine
NoCall == [op |-> "none", key |-> None, value |-> None, ttl |-> 0, ret |-> None, removed |-> {}]
NoOptions == [skip_cache |-> FALSE, cache_ttl |-> 0]
Nothing == [kind |-> "none", val |-> None]
Pending == [state |-> "PENDING", val |-> None]
Free == [state |-> "FREE", val |-> None]

\* a thread that is in no InMemoryCache method
NoFrame == [pc |-> "idle", op |-> None, key |-> None, value |-> None, ttl |-> 0, expires_at |-> 0,
            tmp |-> 0, loaded |-> FALSE, to_evict |-> 0, keys |-> <<>>, cur |-> None,
            i |-> 0, size |-> 0, at |-> 0, exc |-> None, calls |-> 0]
NoBatch == [events |-> <<>>, i |-> 0, results |-> <<>>, returned |-> FALSE,
            options |-> [skip_cache |-> FALSE, cache_ttl |-> 0]]

NoRace == frame = [t \in Threads |-> NoFrame]
NoBatchCall == batch = NoBatch
NoHashing == error_log = <<>> /\ normalized = <<>>
NoRouting == event = <<>> /\ repo_url_map = <<>> /\ default_repo_url = None
\* an OpenAILLMProvider that was never built and never called
NoProvider == [client |-> None, pc |-> "idle", messages |-> None, attempt |-> 0,
               last_error |-> None, errors |-> <<>>, tries |-> 0, slept |-> 0,
               out |-> [kind |-> "none", val |-> None, attempt |-> 0]]
NoRetry == openai = NoProvider
\* no event given to the handler
NoRequest == [event |-> [keys |-> {}, Records |-> <<>>, top |-> None], pc |-> "idle",
              branch |-> "none", error_events |-> <<>>]
NoParsing == request = NoRequest

\* ErrorAnalysisEngine(cache=...): an empty ticket table, no request running
EngineInit ==
    /\ inflight = <<>>
    /\ futures = [f \in TicketIds |-> Free]
    /\ llm_calls = 0
    /\ pc = [t \in Threads |-> "idle"]
    /\ cache_key = [t \in Threads |-> None]
    /\ options = [t \in Threads |-> NoOptions]
    /\ inflight_future = [t \in Threads |-> 0]
    /\ is_owner = [t \in Threads |-> FALSE]
    /\ repository_context = [t \in Threads |-> None]
    /\ analysis = [t \in Threads |-> Nothing]
    /\ ret = [t \in Threads |-> Nothing]
    /\ touched = [t \in Threads |-> {}]
    /\ inflight_lock = None

\* the Future slots something still refers to
LiveTickets == {inflight_future[t] : t \in Threads} \cup {inflight[k] : k \in DOMAIN inflight}
\* Future(): a new object, distinct from every live one
NewFuture == CHOOSE f \in TicketIds : f \notin LiveTickets /\ \A g \in TicketIds \ LiveTickets : f <= g

\* a ticket lookup that hands every caller a ticket of its own
get_or_create_inflight_always_new(key) == <<NewFuture, TRUE>>

\* _get_or_create_inflight(key), under _inflight_lock: <<future, is_owner>>
get_or_create_inflight(key) ==
    IF key \in DOMAIN inflight THEN <<inflight[key], FALSE>> ELSE <<NewFuture, TRUE>>

\* a release that leaves the ticket in the table
clear_inflight_keeps(key, future) == inflight

\* a release that removes the ticket only when the future holds a result
clear_inflight_on_success(key, future) ==
    IF key \in DOMAIN inflight /\ inflight[key] = future /\ futures[future].state = "RESULT"
    THEN MapDel(inflight, {key})
    ELSE inflight

\* a release that removes the key's ticket whichever ticket it is
clear_inflight_any_ticket(key, future) == MapDel(inflight, {key})

\* _clear_inflight(key, future), under _inflight_lock: the table afterwards
clear_inflight(key, future) ==
    IF key \in DOMAIN inflight /\ inflight[key] = future
    THEN MapDel(inflight, {key})
    ELSE inflight

\* a waiter that raises an error derived from the owner's instead of the owner's own
FutureOutcomeDerived(f) ==
    IF futures[f].state = "RESULT" THEN [kind |-> "return", val |-> futures[f].val]
    ELSE [kind |-> "raise", val |-> "derived"]

\* what Future.result() gives once the future is done
FutureOutcome(f) ==
    IF futures[f].state = "RESULT" THEN [kind |-> "return", val |-> futures[f].val]
    ELSE [kind |-> "raise", val |-> futures[f].val]

\* a request path that reads the cache whatever skip_cache says
StartAlwaysReads(t, key, skip, ttl) ==
    /\ pc[t] = "idle"
    /\ hits + misses + llm_calls < MaxWork
    /\ cache_key' = [cache_key EXCEPT ![t] = key]
    /\ options' = [options EXCEPT ![t] = [skip_cache |-> skip, cache_ttl |-> ttl]]
    /\ pc' = [pc EXCEPT ![t] = "get"]
    /\ UNCHANGED <<cacheVars, now, last, inflight, futures, llm_calls, inflight_future, is_owner,
                   repository_context, analysis, ret, touched, otherVars>>

\* process_error_log(event, options) is called: the cache key is derived
Start(t, key, skip, ttl) ==
    /\ pc[t] = "idle"
    /\ hits + misses + llm_calls < MaxWork
    /\ cache_key' = [cache_key EXCEPT ![t] = key]
    /\ options' = [options EXCEPT ![t] = [skip_cache |-> skip, cache_ttl |-> ttl]]
    /\ pc' = [pc EXCEPT ![t] = IF skip THEN "acquire" ELSE "get"]
    /\ UNCHANGED <<cacheVars, now, inflight, futures, llm_calls, inflight_future, is_owner,
                   repository_context, analysis, ret, touched>>
    /\ UNCHANGED <<last, otherVars>>

\* a cache check that writes the entry it found back, with a new expiry time
CheckCacheRefreshes(t) ==
    /\ pc[t] = "get"
    /\ IF GetResult(cache_key[t]) # None
       THEN /\ set(cache_key[t], GetResult(cache_key[t]), options[t].cache_ttl)
            /\ pc' = [pc EXCEPT ![t] = "done"]
            /\ ret' = [ret EXCEPT ![t] = [kind |-> "return", val |-> GetResult(cache_key[t])]]
       ELSE /\ get(cache_key[t])
            /\ pc' = [pc EXCEPT ![t] = "acquire"]
            /\ UNCHANGED ret
    /\ touched' = [touched EXCEPT ![t] = IF cache' # cache THEN @ \cup {"removed"} ELSE @]
    /\ UNCHANGED <<now, inflight, futures, llm_calls, cache_key, options,
                   inflight_future, is_owner, repository_context, analysis>>
    /\ UNCHANGED <<last, otherVars>>

\* cached_result = self.cache.get(cache_key); a hit returns it
CheckCache(t) ==
    /\ pc[t] = "get"
    /\ get(cache_key[t])
    /\ IF GetResult(cache_key[t]) # None
       THEN /\ pc' = [pc EXCEPT ![t] = "done"]
            /\ ret' = [ret EXCEPT ![t] = [kind |-> "return", val |-> GetResult(cache_key[t])]]
       ELSE /\ pc' = [pc EXCEPT ![t] = "acquire"]
            /\ UNCHANGED ret
    /\ touched' = [touched EXCEPT ![t] = IF cache' # cache THEN @ \cup {"removed"} ELSE @]
    /\ UNCHANGED <<now, inflight, futures, llm_calls, cache_key, options,
                   inflight_future, is_owner, repository_context, analysis>>
    /\ UNCHANGED <<last, otherVars>>

\* inflight_future, is_owner = self._get_or_create_inflight(cache_key)
Acquire(t) ==
    /\ pc[t] = "acquire"
    /\ LET got == get_or_create_inflight(cache_key[t])
       IN  /\ inflight_future' = [inflight_future EXCEPT ![t] = got[1]]
           /\ is_owner' = [is_owner EXCEPT ![t] = got[2]]
           /\ IF got[2]
              THEN /\ inflight' = MapSet(inflight, cache_key[t], got[1])
                   /\ futures' = [futures EXCEPT ![got[1]] = Pending]
                   /\ pc' = [pc EXCEPT ![t] = "context"]
              ELSE /\ pc' = [pc EXCEPT ![t] = "wait"]
                   /\ UNCHANGED <<inflight, futures>>
    /\ UNCHANGED <<cacheVars, now, llm_calls, cache_key, options,
                   repository_context, analysis, ret, touched>>
    /\ UNCHANGED <<last, otherVars>>

\* return inflight_future.result(): blocks until the future is done
Wait(t) ==
    /\ pc[t] = "wait"
    /\ futures[inflight_future[t]].state \in {"RESULT", "EXCEPTION"}
    /\ ret' = [ret EXCEPT ![t] = FutureOutcome(inflight_future[t])]
    /\ pc' = [pc EXCEPT ![t] = "done"]
    /\ UNCHANGED <<cacheVars, now, inflight, futures, llm_calls, cache_key, options,
                   inflight_future, is_owner, repository_context, analysis, touched>>
    /\ UNCHANGED <<last, otherVars>>

\* repository_context = self._build_repository_context(event): no repository,
\* snippets fetched, or a fetch failure recorded inside the context (the
\* provider's exceptions are caught per file, lines 176-183); the int(os.getenv(...))
\* conversions of lines 169-171 and 219 are outside that try, and a value that
\* is no number raises ValueError into process_error_log's except branch
BuildContext(t) ==
    /\ pc[t] = "context"
    /\ \/ /\ \E c \in {None, "snippets", "fetch_failed"} :
                 repository_context' = [repository_context EXCEPT ![t] = c]
          /\ pc' = [pc EXCEPT ![t] = "analyze"]
          /\ UNCHANGED analysis
       \/ /\ \E e \in ConfigErrors :
                 analysis' = [analysis EXCEPT ![t] = [kind |-> "raise", val |-> e]]
          /\ pc' = [pc EXCEPT ![t] = "fail"]
          /\ UNCHANGED repository_context
    /\ UNCHANGED <<cacheVars, now, inflight, futures, llm_calls, cache_key, options,
                   inflight_future, is_owner, ret, touched>>
    /\ UNCHANGED <<last, otherVars>>

\* an owner that goes on to the cache write whatever its skip_cache says
AnalyzeAlwaysStores(t) ==
    /\ pc[t] = "analyze"
    /\ llm_calls' = llm_calls + 1
    /\ \/ \E v \in Values :
            /\ analysis' = [analysis EXCEPT ![t] = [kind |-> "return", val |-> v]]
            /\ pc' = [pc EXCEPT ![t] = "set"]
       \/ \E e \in Errors :
            /\ analysis' = [analysis EXCEPT ![t] = [kind |-> "raise", val |-> e]]
            /\ pc' = [pc EXCEPT ![t] = "fail"]
    /\ repository_context' = [repository_context EXCEPT ![t] = None]
    /\ UNCHANGED <<cacheVars, now, inflight, futures, cache_key, options,
                   inflight_future, is_owner, ret, touched>>
    /\ UNCHANGED <<last, otherVars>>

\* analysis_result = self.llm_provider.analyze_error(...): a result or an exception
Analyze(t) ==
    /\ pc[t] = "analyze"
    /\ llm_calls' = llm_calls + 1
    /\ \/ \E v \in Values :
            /\ analysis' = [analysis EXCEPT ![t] = [kind |-> "return", val |-> v]]
            /\ pc' = [pc EXCEPT ![t] = IF options[t].skip_cache THEN "publish" ELSE "set"]
       \/ \E e \in Errors :
            /\ analysis' = [analysis EXCEPT ![t] = [kind |-> "raise", val |-> e]]
            /\ pc' = [pc EXCEPT ![t] = "fail"]
    /\ repository_context' = [repository_context EXCEPT ![t] = None]
    /\ UNCHANGED <<cacheVars, now, inflight, futures, cache_key, options,
                   inflight_future, is_owner, ret, touched>>
    /\ UNCHANGED <<last, otherVars>>

\* an owner that goes on to settle its ticket without writing the cache
StoreResultNothing(t) ==
    /\ pc[t] = "set"
    /\ pc' = [pc EXCEPT ![t] = "publish"]
    /\ UNCHANGED <<cacheVars, now, inflight, futures, llm_calls, cache_key, options,
                   inflight_future, is_owner, repository_context, analysis, ret, touched>>
    /\ UNCHANGED <<last, otherVars>>

\* a write that ignores options.cache_ttl: the entry expires at once
StoreResultWithoutTtl(t) ==
    /\ pc[t] = "set"
    /\ set(cache_key[t], analysis[t].val, 0)
    /\ touched' = [touched EXCEPT ![t] = @ \cup {"written"}]
    /\ pc' = [pc EXCEPT ![t] = "publish"]
    /\ UNCHANGED <<now, inflight, futures, llm_calls, cache_key, options,
                   inflight_future, is_owner, repository_context, analysis, ret>>
    /\ UNCHANGED <<last, otherVars>>

\* self.cache.set(cache_key, analysis_result, ttl=options.cache_ttl)
StoreResult(t) ==
    /\ pc[t] = "set"
    /\ set(cache_key[t], analysis[t].val, options[t].cache_ttl)
    /\ touched' = [touched EXCEPT ![t] = @ \cup {"written"}]
    /\ pc' = [pc EXCEPT ![t] = "publish"]
    /\ UNCHANGED <<now, inflight, futures, llm_calls, cache_key, options,
                   inflight_future, is_owner, repository_context, analysis, ret>>
    /\ UNCHANGED <<last, otherVars>>

\* an owner that skips set_result on its way to the finally clause
PublishNothing(t) ==
    /\ pc[t] = "publish"
    /\ pc' = [pc EXCEPT ![t] = "clear"]
    /\ UNCHANGED <<cacheVars, now, inflight, futures, llm_calls, cache_key, options,
                   inflight_future, is_owner, repository_context, analysis, ret, touched>>
    /\ UNCHANGED <<last, otherVars>>

\* inflight_future.set_result(analysis_result)
Publish(t) ==
    /\ pc[t] = "publish"
    /\ futures' = [futures EXCEPT ![inflight_future[t]] =
                       [state |-> "RESULT", val |-> analysis[t].val]]
    /\ pc' = [pc EXCEPT ![t] = "clear"]
    /\ UNCHANGED <<cacheVars, now, inflight, llm_calls, cache_key, options,
                   inflight_future, is_owner, repository_context, analysis, ret, touched>>
    /\ UNCHANGED <<last, otherVars>>

\* a failure path that first stores what it has in the cache
PublishFailureCached(t) ==
    /\ pc[t] = "fail"
    /\ set(cache_key[t], analysis[t].val, options[t].cache_ttl)
    /\ touched' = [touched EXCEPT ![t] = @ \cup {"written"}]
    /\ futures' = [futures EXCEPT ![inflight_future[t]] =
                       [state |-> "EXCEPTION", val |-> analysis[t].val]]
    /\ pc' = [pc EXCEPT ![t] = "clear"]
    /\ UNCHANGED <<now, last, inflight, llm_calls, cache_key, options,
                   inflight_future, is_owner, repository_context, analysis, ret, otherVars>>

\* an except branch that re-raises without settling the ticket
PublishFailureWithoutSettling(t) ==
    /\ pc[t] = "fail"
    /\ pc' = [pc EXCEPT ![t] = "clear"]
    /\ UNCHANGED <<cacheVars, now, inflight, futures, llm_calls, cache_key, options,
                   inflight_future, is_owner, repository_context, analysis, ret, touched>>
    /\ UNCHANGED <<last, otherVars>>

\* except Exception as e: inflight_future.set_exception(e); on a Future that is
\* settled already set_exception raises InvalidStateError, which replaces e
PublishFailure(t) ==
    /\ pc[t] = "fail"
    /\ IF futures[inflight_future[t]].state = "PENDING"
       THEN /\ futures' = [futures EXCEPT ![inflight_future[t]] =
                              [state |-> "EXCEPTION", val |-> analysis[t].val]]
            /\ UNCHANGED analysis
       ELSE /\ analysis' = [analysis EXCEPT ![t] = [kind |-> "raise", val |-> "InvalidStateError"]]
            /\ UNCHANGED futures
    /\ pc' = [pc EXCEPT ![t] = "clear"]
    /\ UNCHANGED <<cacheVars, now, inflight, llm_calls, cache_key, options,
                   inflight_future, is_owner, repository_context, ret, touched>>
    /\ UNCHANGED <<last, otherVars>>

\* finally: self._clear_inflight(cache_key, inflight_future); then the return or
\* the re-raise reaches the caller
Release(t) ==
    /\ pc[t] = "clear"
    /\ inflight' = clear_inflight(cache_key[t], inflight_future[t])
    /\ ret' = [ret EXCEPT ![t] = analysis[t]]
    /\ pc' = [pc EXCEPT ![t] = "done"]
    /\ UNCHANGED <<cacheVars, now, futures, llm_calls, cache_key, options,
                   inflight_future, is_owner, repository_context, analysis, touched>>
    /\ UNCHANGED <<last, otherVars>>

\* the caller has the outcome; the call's locals are dropped and the thread is
\* free to make another call
Finish(t) ==
    /\ pc[t] = "done"
    /\ pc' = [pc EXCEPT ![t] = "idle"]
    /\ cache_key' = [cache_key EXCEPT ![t] = None]
    /\ options' = [options EXCEPT ![t] = NoOptions]
    /\ inflight_future' = [inflight_future EXCEPT ![t] = 0]
    /\ is_owner' = [is_owner EXCEPT ![t] = FALSE]
    /\ analysis' = [analysis EXCEPT ![t] = Nothing]
    /\ ret' = [ret EXCEPT ![t] = Nothing]
    /\ touched' = [touched EXCEPT ![t] = {}]
    /\ futures' = [f \in TicketIds |->
                      IF f = inflight_future[t]
                         /\ \A u \in Threads \ {t} : inflight_future[u] # f
                      THEN Free ELSE futures[f]]
    /\ UNCHANGED <<cacheVars, now, inflight, llm_calls, repository_context>>
    /\ UNCHANGED <<last, otherVars>>

EngineTick ==
    /\ now < MaxTime
    /\ now' = now + 1
    /\ UNCHANGED <<cacheVars, engineVars, last, otherVars>>

\* ErrorAnalysisEngine(cache=InMemoryCache(max_size=EngineCap)): the policy defaults to LRU
InitEngine ==
    /\ cache = <<>>
    /\ access_order = <<>>
    /\ max_size = Clamp(EngineCap)
    /\ eviction_policy = "LRU"
    /\ hits = 0 /\ misses = 0 /\ writes = 0
    /\ EngineInit
    /\ now = 0
    /\ last = NoCall
    /\ NoRace /\ NoBatchCall /\ NoHashing /\ NoRouting /\ NoRetry /\ NoParsing

NextEngine ==
    \/ \E t \in Threads, k \in EngineKeys, skip \in BOOLEAN, ttl \in TTLs : Start(t, k, skip, ttl)
    \/ \E t \in Threads : CheckCache(t)
    \/ \E t \in Threads : Acquire(t)
    \/ \E t \in Threads : Wait(t)
    \/ \E t \in Threads : BuildContext(t)
    \/ \E t \in Threads : Analyze(t)
    \/ \E t \in Threads : StoreResult(t)
    \/ \E t \in Threads : Publish(t)
    \/ \E t \in Threads : PublishFailure(t)
    \/ \E t \in Threads : Release(t)
    \/ \E t \in Threads : Finish(t)
    \/ EngineTick

SpecEngine == InitEngine /\ [][NextEngine]_vars

\* the two threads of test_concurrent_same_error_is_analyzed_once_per_process: both
\* enter process_error_log with the same cache key, on an empty cache and an
\* empty ticket table
InitBurst ==
    /\ cache = <<>>
    /\ access_order = <<>>
    /\ max_size = Clamp(EngineCap)
    /\ eviction_policy = "LRU"
    /\ hits = 0 /\ misses = 0 /\ writes = 0
    /\ now = 0
    /\ last = NoCall
    /\ inflight = <<>>
    /\ futures = [f \in TicketIds |-> Free]
    /\ llm_calls = 0
    /\ \E k \in EngineKeys : cache_key = [t \in Threads |-> k]
    /\ options \in [Threads -> [skip_cache : BOOLEAN, cache_ttl : TTLs]]
    /\ pc = [t \in Threads |-> IF options[t].skip_cache THEN "acquire" ELSE "get"]
    /\ inflight_future = [t \in Threads |-> 0]
    /\ is_owner = [t \in Threads |-> FALSE]
    /\ repository_context = [t \in Threads |-> None]
    /\ analysis = [t \in Threads |-> Nothing]
    /\ ret = [t \in Threads |-> Nothing]
    /\ touched = [t \in Threads |-> {}]
    /\ inflight_lock = None
    /\ NoRace /\ NoBatchCall /\ NoHashing /\ NoRouting /\ NoRetry /\ NoParsing

NextBurst ==
    \/ \E t \in Threads : CheckCache(t)
    \/ \E t \in Threads : Acquire(t)
    \/ \E t \in Threads : Wait(t)
    \/ \E t \in Threads : BuildContext(t)
    \/ \E t \in Threads : Analyze(t)
    \/ \E t \in Threads : StoreResult(t)
    \/ \E t \in Threads : Publish(t)
    \/ \E t \in Threads : PublishFailure(t)
    \/ \E t \in Threads : Release(t)
    \/ EngineTick

SpecBurst == InitBurst /\ [][NextBurst]_vars

\* print(f'... {analysis_result.confidence_score}%') after set_result raises (the
\* analyzer's result has no such attribute, or the output stream fails): control
\* goes to the except branch with the ticket already settled. The engine's other
\* specifications take this statement to succeed.
LogFails(t) ==
    /\ pc[t] = "clear"
    /\ analysis[t].kind = "return"
    /\ \E e \in LogErrors : analysis' = [analysis EXCEPT ![t] = [kind |-> "raise", val |-> e]]
    /\ pc' = [pc EXCEPT ![t] = "fail"]
    /\ UNCHANGED <<cacheVars, now, inflight, futures, llm_calls, cache_key, options,
                   inflight_future, is_owner, repository_context, ret, touched>>
    /\ UNCHANGED <<last, otherVars>>

NextSettle ==
    \/ NextBurst
    \/ \E t \in Threads : LogFails(t)

SpecSettle == InitBurst /\ [][NextSettle]_vars

\* --------------------------------------------- the cache API called directly
CallGet(key) ==
    /\ hits + misses + writes < MaxCalls
    /\ get(key)
    /\ last' = [op |-> "get", key |-> key, value |-> None, ttl |-> 0,
                ret |-> GetResult(key),
                removed |-> (KeySet(cache)) \ KeySet(cache')]
    /\ UNCHANGED <<now, engineVars, otherVars>>

CallSet(key, value, ttl) ==
    /\ hits + misses + writes < MaxCalls
    /\ set(key, value, ttl)
    /\ last' = [op |-> "set", key |-> key, value |-> value, ttl |-> ttl,
                ret |-> None,
                removed |-> (KeySet(cache) \cup {key}) \ KeySet(cache')]
    /\ UNCHANGED <<now, engineVars, otherVars>>

CallDelete(key) ==
    /\ delete(key)
    /\ last' = [op |-> "delete", key |-> key, value |-> None, ttl |-> 0,
                ret |-> None,
                removed |-> (KeySet(cache)) \ KeySet(cache')]
    /\ UNCHANGED <<now, engineVars, otherVars>>

CallClearExpired ==
    /\ clear_expired
    /\ last' = [op |-> "clear_expired", key |-> None, value |-> None, ttl |-> 0,
                ret |-> None,
                removed |-> (KeySet(cache)) \ KeySet(cache')]
    /\ UNCHANGED <<now, engineVars, otherVars>>

CallSetMaxSize(size) ==
    /\ set_max_size(size)
    /\ last' = [op |-> "set_max_size", key |-> None, value |-> None, ttl |-> 0,
                ret |-> None,
                removed |-> (KeySet(cache)) \ KeySet(cache')]
    /\ UNCHANGED <<now, engineVars, otherVars>>

\* the clock advances between calls
Tick ==
    /\ now < MaxTime
    /\ now' = now + 1
    /\ last' = NoCall
    /\ UNCHANGED <<cacheVars, engineVars, otherVars>>

InitCache ==
    /\ CacheInit
    /\ EngineInit
    /\ now = 0
    /\ last = NoCall
    /\ NoRace /\ NoBatchCall /\ NoHashing /\ NoRouting /\ NoRetry /\ NoParsing

NextCache ==
    \/ \E k \in Keys : CallGet(k)
    \/ \E k \in Keys, v \in Values, ttl \in TTLs : CallSet(k, v, ttl)
    \/ \E k \in Keys : CallDelete(k)
    \/ CallClearExpired
    \/ \E size \in Sizes : CallSetMaxSize(size)
    \/ Tick

SpecCache == InitCache /\ [][NextCache]_vars

\* ------------------------------------- the cache called from two threads
\* InMemoryCache holds no lock: a thread switch can fall between any two
\* statements of its methods. Each action below is one statement of cache.py; a
\* counter's += is a read and a write.
Frame(t) == frame[t]
Goto(t, label) == frame' = [frame EXCEPT ![t].pc = label]
Raise(t, e) == frame' = [frame EXCEPT ![t].pc = "raised", ![t].exc = e]
raceRest == <<now, last, engineVars, batch, hashVars, routeVars, inflight_lock, openai, request>>

\* sorted_keys[:to_evict], keys[:to_evict]
SlicePrefix(s, n) ==
    IF n >= 0 THEN SubSeq(s, 1, IF n < Len(s) THEN n ELSE Len(s))
    ELSE SubSeq(s, 1, IF Len(s) + n > 0 THEN Len(s) + n ELSE 0)

\* the statements `self.<counter> += 1` and where each is followed
IncLabels == {"get38", "get48", "get53", "set69"}
CounterAt(label) == IF label = "get53" THEN hits ELSE IF label = "set69" THEN writes ELSE misses
AfterInc(label) == IF label = "set69" THEN "evict83" ELSE "ret"
\* the statements `if key in self.access_order:` / `del self.access_order[key]`
AccLabels == {"get46", "del78", "evict97", "clr122"}
AccDelLabels == {"get47", "del79", "evict98", "clr123"}
AccDelOf(label) ==
    IF label = "get46" THEN "get47" ELSE IF label = "del78" THEN "del79"
    ELSE IF label = "evict97" THEN "evict98" ELSE "clr123"
AfterAcc(label) ==
    IF label \in {"get46", "get47"} THEN "get48"
    ELSE IF label \in {"del78", "del79"} THEN "ret"
    ELSE IF label \in {"evict97", "evict98"} THEN "evict95" ELSE "clr120"

\* a thread calls get, set, delete or clear_expired
RaceCall(t, op, key, value, ttl) ==
    /\ Frame(t).pc = "idle"
    /\ Frame(t).calls < MaxRace
    /\ frame' = [frame EXCEPT ![t] =
                   [NoFrame EXCEPT !.pc = (IF op = "get" THEN "get37"
                                           ELSE IF op = "set" THEN "set67"
                                           ELSE IF op = "delete" THEN "del76" ELSE "clr113"),
                                   !.op = op, !.key = key, !.cur = key, !.value = value,
                                   !.ttl = ttl,
                                   !.calls = Frame(t).calls + 1]]
    /\ UNCHANGED <<cacheVars, raceRest>>

\* get, line 37: if key not in self.cache
GetLookup(t) ==
    /\ Frame(t).pc = "get37"
    /\ Goto(t, IF Has(cache, Frame(t).key) THEN "get41" ELSE "get38")
    /\ UNCHANGED <<cacheVars, raceRest>>

\* self.hits / self.misses / self.writes += 1: the read
IncLoad(t) ==
    /\ Frame(t).pc \in IncLabels /\ ~Frame(t).loaded
    /\ frame' = [frame EXCEPT ![t].tmp = CounterAt(Frame(t).pc), ![t].loaded = TRUE]
    /\ UNCHANGED <<cacheVars, raceRest>>

\* self.hits / self.misses / self.writes += 1: the write
IncStore(t) ==
    /\ Frame(t).pc \in IncLabels /\ Frame(t).loaded
    /\ hits' = (IF Frame(t).pc = "get53" THEN Frame(t).tmp + 1 ELSE hits)
    /\ writes' = (IF Frame(t).pc = "set69" THEN Frame(t).tmp + 1 ELSE writes)
    /\ misses' = (IF Frame(t).pc \in {"get38", "get48"} THEN Frame(t).tmp + 1 ELSE misses)
    /\ frame' = [frame EXCEPT ![t].pc = AfterInc(Frame(t).pc), ![t].loaded = FALSE]
    /\ UNCHANGED <<cache, access_order, max_size, eviction_policy, raceRest>>

\* get, line 41: result, expires_at = self.cache[key]
GetRead(t) ==
    /\ Frame(t).pc = "get41"
    /\ IF Has(cache, Frame(t).key)
       THEN frame' = [frame EXCEPT ![t].pc = "get44",
                                   ![t].value = Item(cache, Frame(t).key).value,
                                   ![t].expires_at = Item(cache, Frame(t).key).expires_at]
       ELSE Raise(t, "KeyError")
    /\ UNCHANGED <<cacheVars, raceRest>>

\* get, line 44: if time.time() > expires_at
GetCheckExpiry(t) ==
    /\ Frame(t).pc = "get44"
    /\ Goto(t, IF now > Frame(t).expires_at THEN "get45" ELSE "get52")
    /\ UNCHANGED <<cacheVars, raceRest>>

\* del self.cache[key]: get line 45, delete line 77, _evict_if_needed lines 96
\* and 104, clear_expired line 121
DelEntry(t) ==
    /\ Frame(t).pc \in {"get45", "del77", "evict96", "clr121"}
    /\ IF Has(cache, Frame(t).cur)
       THEN /\ cache' = DictDel(cache, {Frame(t).cur})
            /\ Goto(t, IF Frame(t).pc = "get45" THEN "get46"
                       ELSE IF Frame(t).pc = "del77" THEN "del78"
                       ELSE IF Frame(t).pc = "evict96" THEN "evict97" ELSE "clr122")
       ELSE /\ Raise(t, "KeyError")
            /\ UNCHANGED cache
    /\ UNCHANGED <<access_order, max_size, eviction_policy, hits, misses, writes, raceRest>>

\* if key in self.access_order
AccCheck(t) ==
    /\ Frame(t).pc \in AccLabels
    /\ Goto(t, IF Frame(t).cur \in DOMAIN access_order
               THEN AccDelOf(Frame(t).pc) ELSE AfterAcc(Frame(t).pc))
    /\ UNCHANGED <<cacheVars, raceRest>>

\* del self.access_order[key]
AccDelete(t) ==
    /\ Frame(t).pc \in AccDelLabels
    /\ IF Frame(t).cur \in DOMAIN access_order
       THEN /\ access_order' = MapDel(access_order, {Frame(t).cur})
            /\ Goto(t, AfterAcc(Frame(t).pc))
       ELSE /\ Raise(t, "KeyError")
            /\ UNCHANGED access_order
    /\ UNCHANGED <<cache, max_size, eviction_policy, hits, misses, writes, raceRest>>

\* self.access_order[key] = time.time(): get line 52, set line 68
TouchAccess(t) ==
    /\ Frame(t).pc \in {"get52", "set68"}
    /\ access_order' = MapSet(access_order, Frame(t).key, now)
    /\ Goto(t, IF Frame(t).pc = "get52" THEN "get53" ELSE "set69")
    /\ UNCHANGED <<cache, max_size, eviction_policy, hits, misses, writes, raceRest>>

\* set, lines 66-67: self.cache[key] = (value, time.time() + ttl)
SetWrite(t) ==
    /\ Frame(t).pc = "set67"
    /\ cache' = DictSet(cache, Frame(t).key,
                        [key |-> Frame(t).key, value |-> Frame(t).value,
                         expires_at |-> now + Frame(t).ttl])
    /\ Goto(t, "set68")
    /\ UNCHANGED <<access_order, max_size, eviction_policy, hits, misses, writes, raceRest>>

\* _evict_if_needed, line 83: if len(self.cache) <= self.max_size: return
EvictCheck(t) ==
    /\ Frame(t).pc = "evict83"
    /\ Goto(t, IF Len(cache) <= max_size THEN "ret" ELSE "evict86")
    /\ UNCHANGED <<cacheVars, raceRest>>

\* line 86: to_evict = len(self.cache) - self.max_size
EvictCount(t) ==
    /\ Frame(t).pc = "evict86"
    /\ frame' = [frame EXCEPT ![t].pc = "evict91", ![t].to_evict = Len(cache) - max_size]
    /\ UNCHANGED <<cacheVars, raceRest>>

\* lines 91-95 and 102-103: the keys in eviction order, cut to to_evict
EvictSort(t) ==
    /\ Frame(t).pc = "evict91"
    /\ frame' = [frame EXCEPT ![t].pc = "evict95",
                              ![t].keys = SlicePrefix(EvictOrder(cache, access_order, eviction_policy),
                                                      Frame(t).to_evict)]
    /\ UNCHANGED <<cacheVars, raceRest>>

\* for key in ...: the eviction loop (95, 103) and clear_expired's second loop (120)
NextKey(t) ==
    /\ Frame(t).pc \in {"evict95", "clr120"}
    /\ IF Frame(t).keys = <<>>
       THEN Goto(t, "ret")
       ELSE frame' = [frame EXCEPT ![t].pc = (IF Frame(t).pc = "evict95" THEN "evict96" ELSE "clr121"),
                                   ![t].cur = Head(Frame(t).keys),
                                   ![t].keys = Tail(Frame(t).keys)]
    /\ UNCHANGED <<cacheVars, raceRest>>

\* delete, line 76: if key in self.cache
DeleteLookup(t) ==
    /\ Frame(t).pc = "del76"
    /\ Goto(t, IF Has(cache, Frame(t).key) THEN "del77" ELSE "del78")
    /\ UNCHANGED <<cacheVars, raceRest>>

\* clear_expired, lines 113-116: now = time.time(); the iteration over
\* self.cache.items() starts
ClearStart(t) ==
    /\ Frame(t).pc = "clr113"
    /\ frame' = [frame EXCEPT ![t].pc = "clr116", ![t].at = now, ![t].i = 0,
                              ![t].size = Len(cache), ![t].keys = <<>>]
    /\ UNCHANGED <<cacheVars, raceRest>>

\* lines 116-118: the iterator's next item; a dict whose size changed since the
\* iteration began makes it raise RuntimeError
ClearScan(t) ==
    /\ Frame(t).pc = "clr116"
    /\ IF Len(cache) # Frame(t).size
       THEN Raise(t, "RuntimeError")
       ELSE IF Frame(t).i >= Len(cache)
       THEN Goto(t, "clr120")
       ELSE frame' = [frame EXCEPT ![t].i = Frame(t).i + 1,
                                   ![t].keys = IF Frame(t).at > cache[Frame(t).i + 1].expires_at
                                               THEN Append(@, cache[Frame(t).i + 1].key) ELSE @]
    /\ UNCHANGED <<cacheVars, raceRest>>

\* the method returns to its caller
RaceReturn(t) ==
    /\ Frame(t).pc = "ret"
    /\ frame' = [frame EXCEPT ![t] = [NoFrame EXCEPT !.calls = Frame(t).calls]]
    /\ UNCHANGED <<cacheVars, raceRest>>

\* the exception leaves the method
RaceRaised(t) ==
    /\ Frame(t).pc = "raised"
    /\ frame' = [frame EXCEPT ![t] = [NoFrame EXCEPT !.calls = Frame(t).calls,
                                                      !.op = Frame(t).op,
                                                      !.exc = Frame(t).exc]]
    /\ UNCHANGED <<cacheVars, raceRest>>

RaceTick ==
    /\ now < MaxTime
    /\ now' = now + 1
    /\ UNCHANGED <<cacheVars, last, engineVars, otherVars>>

\* a cache some earlier calls filled at time 0, then used by both threads
RaceTables ==
    {<<>>} \cup {<<[key |-> k, value |-> "r1", expires_at |-> 1]>> : k \in EngineKeys}
           \cup {<<[key |-> kj[1], value |-> "r1", expires_at |-> 1],
                   [key |-> kj[2], value |-> "r1", expires_at |-> 1]>> :
                    kj \in {x \in EngineKeys \X EngineKeys : x[1] # x[2]}}

InitRace ==
    /\ cache \in RaceTables
    /\ access_order = [k \in KeySet(cache) |-> 0]
    /\ max_size \in {Clamp(size) : size \in Sizes}
    /\ Len(cache) <= max_size
    /\ eviction_policy \in Policies
    /\ hits = 0 /\ misses = 0 /\ writes = Len(cache)
    /\ EngineInit
    /\ now = 0
    /\ last = NoCall
    /\ NoRace /\ NoBatchCall /\ NoHashing /\ NoRouting /\ NoRetry /\ NoParsing

NextRace ==
    \/ \E t \in Threads, op \in {"get", "set", "delete", "clear_expired"}, k \in EngineKeys :
           RaceCall(t, op, IF op = "clear_expired" THEN None ELSE k,
                    IF op = "set" THEN "r2" ELSE None, IF op = "set" THEN 1 ELSE 0)
    \/ \E t \in Threads : GetLookup(t)
    \/ \E t \in Threads : IncLoad(t)
    \/ \E t \in Threads : IncStore(t)
    \/ \E t \in Threads : GetRead(t)
    \/ \E t \in Threads : GetCheckExpiry(t)
    \/ \E t \in Threads : DelEntry(t)
    \/ \E t \in Threads : AccCheck(t)
    \/ \E t \in Threads : AccDelete(t)
    \/ \E t \in Threads : TouchAccess(t)
    \/ \E t \in Threads : SetWrite(t)
    \/ \E t \in Threads : EvictCheck(t)
    \/ \E t \in Threads : EvictCount(t)
    \/ \E t \in Threads : EvictSort(t)
    \/ \E t \in Threads : NextKey(t)
    \/ \E t \in Threads : DeleteLookup(t)
    \/ \E t \in Threads : ClearStart(t)
    \/ \E t \in Threads : ClearScan(t)
    \/ \E t \in Threads : RaceReturn(t)
    \/ \E t \in Threads : RaceRaised(t)
    \/ RaceTick

SpecRace == InitRace /\ [][NextRace]_vars

\* ------------------------------------------------------- process_error_batch
\* the thread that runs process_error_batch: the loop makes its process_error_log
\* calls one after the other, and no other thread uses the engine meanwhile
BatchThread == "t1"
batchRest == <<frame, hashVars, routeVars, inflight_lock, openai, request>>

\* the process_error_log call of the loop is over: its locals are dropped
BatchCallEnds ==
    /\ pc' = [pc EXCEPT ![BatchThread] = "idle"]
    /\ cache_key' = [cache_key EXCEPT ![BatchThread] = None]
    /\ options' = [options EXCEPT ![BatchThread] = NoOptions]
    /\ inflight_future' = [inflight_future EXCEPT ![BatchThread] = 0]
    /\ is_owner' = [is_owner EXCEPT ![BatchThread] = FALSE]
    /\ analysis' = [analysis EXCEPT ![BatchThread] = Nothing]
    /\ ret' = [ret EXCEPT ![BatchThread] = Nothing]
    /\ touched' = [touched EXCEPT ![BatchThread] = {}]
    /\ futures' = [f \in TicketIds |->
                      IF f = inflight_future[BatchThread]
                         /\ \A u \in Threads \ {BatchThread} : inflight_future[u] # f
                      THEN Free ELSE futures[f]]
    /\ UNCHANGED <<cacheVars, now, last, inflight, llm_calls, repository_context, batchRest>>

\* a batch call that lets the failure of an event end the batch
BatchCollectPropagates ==
    /\ pc[BatchThread] = "done"
    /\ batch.i > Len(batch.results) /\ ~batch.returned
    /\ IF ret[BatchThread].kind = "return"
       THEN batch' = [batch EXCEPT !.results = Append(@, ret[BatchThread].val)]
       ELSE batch' = [batch EXCEPT !.returned = TRUE]
    /\ BatchCallEnds

\* a loop whose calls never read the cache
BatchNextSkipsRead ==
    /\ pc[BatchThread] = "idle"
    /\ ~batch.returned
    /\ batch.i = Len(batch.results) /\ batch.i < Len(batch.events)
    /\ batch' = [batch EXCEPT !.i = @ + 1]
    /\ cache_key' = [cache_key EXCEPT ![BatchThread] = batch.events[batch.i + 1]]
    /\ options' = [options EXCEPT ![BatchThread] = batch.options]
    /\ pc' = [pc EXCEPT ![BatchThread] = "acquire"]
    /\ UNCHANGED <<cacheVars, now, last, inflight, futures, llm_calls, inflight_future, is_owner,
                   repository_context, analysis, ret, touched, batchRest>>

\* for event in events: result = self.process_error_log(event, options)
BatchNext ==
    /\ pc[BatchThread] = "idle"
    /\ ~batch.returned
    /\ batch.i = Len(batch.results) /\ batch.i < Len(batch.events)
    /\ batch' = [batch EXCEPT !.i = @ + 1]
    /\ cache_key' = [cache_key EXCEPT ![BatchThread] = batch.events[batch.i + 1]]
    /\ options' = [options EXCEPT ![BatchThread] = batch.options]
    /\ pc' = [pc EXCEPT ![BatchThread] = IF batch.options.skip_cache THEN "acquire" ELSE "get"]
    /\ UNCHANGED <<cacheVars, now, last, inflight, futures, llm_calls, inflight_future, is_owner,
                   repository_context, analysis, ret, touched, batchRest>>

\* results.append(result), or except Exception: results.append(None)
BatchCollect ==
    /\ pc[BatchThread] = "done"
    /\ batch.i > Len(batch.results) /\ ~batch.returned
    /\ batch' = [batch EXCEPT !.results =
                    Append(@, IF ret[BatchThread].kind = "return"
                              THEN ret[BatchThread].val ELSE None)]
    /\ BatchCallEnds

\* return results
BatchReturn ==
    /\ pc[BatchThread] = "idle"
    /\ ~batch.returned
    /\ batch.i = Len(batch.events) /\ Len(batch.results) = batch.i
    /\ batch' = [batch EXCEPT !.returned = TRUE]
    /\ UNCHANGED <<cacheVars, now, last, engineVars, batchRest>>

\* process_error_batch(events, options) on a new engine
InitBatch ==
    /\ cache = <<>>
    /\ access_order = <<>>
    /\ max_size = Clamp(EngineCap)
    /\ eviction_policy = "LRU"
    /\ hits = 0 /\ misses = 0 /\ writes = 0
    /\ EngineInit
    /\ now = 0
    /\ last = NoCall
    /\ \E n \in 1..MaxBatch, skip \in BOOLEAN, ttl \in TTLs :
          \E evs \in [1..n -> EngineKeys] :
              batch = [events |-> evs, i |-> 0, results |-> <<>>, returned |-> FALSE,
                       options |-> [skip_cache |-> skip, cache_ttl |-> ttl]]
    /\ NoRace /\ NoHashing /\ NoRouting /\ NoRetry /\ NoParsing

NextBatch ==
    \/ BatchNext
    \/ BatchCollect
    \/ BatchReturn
    \/ CheckCache(BatchThread)
    \/ Acquire(BatchThread)
    \/ BuildContext(BatchThread)
    \/ Analyze(BatchThread)
    \/ StoreResult(BatchThread)
    \/ Publish(BatchThread)
    \/ PublishFailure(BatchThread)
    \/ Release(BatchThread)
    \/ EngineTick

SpecBatch == InitBatch /\ [][NextBatch]_vars


\* ------------------------------------------------------------- hashing.py
\* A Python str is a sequence of characters; a file path is written as a
\* sequence of its segments and separators. An absent (None) str is Absent,
\* which no string of the model equals.
Absent == <<None>>
Quotes == {"'", "\""}
Digits == {"1", "2"}
Roots == {"src", "lib", "app"}

\* the length of the run of digits s starts with
RECURSIVE DigitRun(_)
DigitRun(s) == IF s # <<>> /\ Head(s) \in Digits THEN 1 + DigitRun(Tail(s)) ELSE 0
Drop(s, n) == SubSeq(s, n + 1, Len(s))
StartsWith(s, p) == Len(s) >= Len(p) /\ SubSeq(s, 1, Len(p)) = p

\* re.sub(q + '[^' + q + ']*' + q, q + 'X' + q, m) for a quote character q
RECURSIVE SubQuoted(_, _)
SubQuoted(m, q) ==
    IF m = <<>> THEN <<>>
    ELSE IF Head(m) # q THEN <<Head(m)>> \o SubQuoted(Tail(m), q)
    ELSE LET rest == Tail(m)
             closing == {j \in 1..Len(rest) : rest[j] = q}
         IN  IF closing = {} THEN m
             ELSE LET j == CHOOSE x \in closing : \A y \in closing : x <= y
                  IN  <<q, "X", q>> \o SubQuoted(Drop(rest, j), q)

\* re.sub(r'\d+', 'N', m)
RECURSIVE SubDigits(_)
SubDigits(m) ==
    IF m = <<>> THEN <<>>
    ELSE IF Head(m) \in Digits THEN <<"N">> \o SubDigits(Drop(m, DigitRun(m)))
    ELSE <<Head(m)>> \o SubDigits(Tail(m))

\* re.sub(r':\d+:\d+', ':X:X', s)
RECURSIVE SubLineCol(_)
SubLineCol(s) ==
    IF s = <<>> THEN <<>>
    ELSE LET a == DigitRun(Tail(s))
             mid == Drop(s, 1 + a)
             b == IF mid # <<>> /\ Head(mid) = ":" THEN DigitRun(Tail(mid)) ELSE 0
         IN  IF Head(s) = ":" /\ a > 0 /\ b > 0
             THEN <<":", "X", ":", "X">> \o SubLineCol(Drop(mid, 1 + b))
             ELSE <<Head(s)>> \o SubLineCol(Tail(s))

\* re.sub(r'at \d+ms', 'at Xms', s)
RECURSIVE SubAtMs(_)
SubAtMs(s) ==
    IF s = <<>> THEN <<>>
    ELSE LET a == IF StartsWith(s, <<"a", "t", " ">>) THEN DigitRun(Drop(s, 3)) ELSE 0
         IN  IF a > 0 /\ StartsWith(Drop(s, 3 + a), <<"m", "s">>)
             THEN <<"a", "t", " ", "X", "m", "s">> \o SubAtMs(Drop(s, 5 + a))
             ELSE <<Head(s)>> \o SubAtMs(Tail(s))

\* file_path.replace('\\', '/')
ReplaceBackslash(p) == [i \in 1..Len(p) |-> IF p[i] = "\\" THEN "/" ELSE p[i]]

\* re.sub(r'^.*/(src|lib|app)/', '', p): the greedy .* takes the last such segment
StripToRoot(p) ==
    LET ends == {i \in 3..Len(p) : p[i] = "/" /\ p[i - 1] \in Roots /\ p[i - 2] = "/"}
    IN  IF ends = {} THEN p
        ELSE Drop(p, CHOOSE i \in ends : \A j \in ends : j <= i)

\* `if s:` for an optional str
Truthy(s) == s # Absent /\ s # <<>>
\* `s or ''`
OrEmpty(s) == IF Truthy(s) THEN s ELSE <<>>

\* the context keys of the model, in the order json.dumps(sort_keys=True) gives them
SortedCtxKeys == <<"commit", "git.commit.sha", "repository.url", "revision", "service.name">>
KeyRank(k) == CHOOSE i \in 1..Len(SortedCtxKeys) : SortedCtxKeys[i] = k

\* json.dumps(context, sort_keys=True): the items in key order
RECURSIVE SortItems(_)
SortItems(c) ==
    IF c = <<>> THEN <<>>
    ELSE LET rest == SortItems(SubSeq(c, 1, Len(c) - 1))
             x == c[Len(c)]
             p == Cardinality({i \in 1..Len(rest) : KeyRank(rest[i].key) <= KeyRank(x.key)})
         IN  SubSeq(rest, 1, p) \o <<x>> \o SubSeq(rest, p + 1, Len(rest))

\* normalize_error_log(error_log); a context that is None or empty is <<>>, and
\* so is the absent context_str
normalize_error_log(log) ==
    [error_hash |-> <<>>,
     error_message |-> SubDigits(SubQuoted(SubQuoted(log.message, "'"), "\"")),
     error_code |-> log.code,
     file_path |-> IF Truthy(log.file_path)
                   THEN StripToRoot(ReplaceBackslash(log.file_path)) ELSE log.file_path,
     line_number |-> log.line_number,
     stack_trace |-> IF Truthy(log.stack_trace)
                     THEN SubAtMs(SubLineCol(log.stack_trace)) ELSE log.stack_trace,
     context |-> SortItems(log.context)]

\* '|'.join(parts)
JoinParts(parts) ==
    parts[1] \o <<"|">> \o parts[2] \o <<"|">> \o parts[3] \o <<"|">> \o parts[4]

\* hashlib.sha256(...).hexdigest(), taken as injective: the digest stands for its input
Sha256(s) == <<"sha256">> \o s

\* a fingerprint that leaves the error code out
generate_error_hash_without_code(n) ==
    Sha256(JoinParts(<<n.error_message, <<>>, OrEmpty(n.file_path), OrEmpty(n.stack_trace)>>))

generate_error_hash(n) ==
    Sha256(JoinParts(<<n.error_message, OrEmpty(n.error_code), OrEmpty(n.file_path),
                       OrEmpty(n.stack_trace)>>))

hash_error_log(log) ==
    LET n == normalize_error_log(log)
    IN  [n EXCEPT !.error_hash = generate_error_hash(n)]

\* the records hash_error_log is given
Messages ==
    {<<"e">>, <<"f">>,
     <<"e", "'", "x", "'">>, <<"e", "'", "y", "z", "'">>,
     <<"e", "\"", "x", "\"">>, <<"e", "\"", "y", "\"">>,
     <<"e", "1">>, <<"e", "2", "1">>,
     <<"n", "'", "t", " ", "'", "x", "'">>, <<"n", "'", "t", " ", "'", "y", "'">>,
     <<"e", "|", "E">>}
Codes == {Absent, <<>>, <<"E">>, <<"E", "|">>}
Paths ==
    {Absent,
     <<"src", "/", "h">>, <<"/", "src", "/", "h">>,
     <<"/", "u", "/", "src", "/", "h">>, <<"/", "v", "/", "src", "/", "h">>,
     <<"C:", "\\", "u", "\\", "src", "\\", "h">>,
     <<"/", "u", "/", "src", "/", "g">>, <<"/", "u", "/", "h">>}
StackTraces ==
    {Absent,
     <<"f", ":", "1", ":", "2">>, <<"f", ":", "2", "1", ":", "1">>,
     <<"a", "t", " ", "1", "m", "s">>, <<"a", "t", " ", "2", "2", "m", "s">>,
     <<"g", ":", "1", ":", "2">>}
LineNumbers == {1, 2}
Contexts == {<<>>, <<[key |-> "revision", value |-> <<"v">>]>>}

\* the second record: the first one, or the first one with one field changed, or
\* with message and code changed together
Variants(log) ==
    {log}
    \cup {[log EXCEPT !.message = m] : m \in Messages}
    \cup {[log EXCEPT !.code = c] : c \in Codes}
    \cup {[log EXCEPT !.file_path = p] : p \in Paths}
    \cup {[log EXCEPT !.stack_trace = s] : s \in StackTraces}
    \cup {[log EXCEPT !.line_number = n] : n \in LineNumbers}
    \cup {[log EXCEPT !.context = c] : c \in Contexts}
    \cup {[log EXCEPT !.message = mc[1], !.code = mc[2]] : mc \in Messages \X Codes}

\* error_hash, normalized = hash_error_log(error_log)
HashErrorLog(i) ==
    /\ i \in DOMAIN error_log
    /\ i \notin DOMAIN normalized
    /\ normalized' = MapSet(normalized, i, hash_error_log(error_log[i]))
    /\ UNCHANGED <<cacheVars, now, last, engineVars, frame, batch, error_log, routeVars,
                   inflight_lock, openai, request>>

InitHash ==
    /\ cache = <<>>
    /\ access_order = <<>>
    /\ max_size = Clamp(EngineCap)
    /\ eviction_policy = "LRU"
    /\ hits = 0 /\ misses = 0 /\ writes = 0
    /\ EngineInit
    /\ now = 0
    /\ last = NoCall
    /\ \E m \in Messages, c \in Codes, p \in Paths, s \in StackTraces :
          LET log == [message |-> m, code |-> c, file_path |-> p, line_number |-> 1,
                      stack_trace |-> s, context |-> <<>>]
          IN  \E other \in Variants(log) : error_log = <<log, other>>
    /\ normalized = <<>>
    /\ NoRace /\ NoBatchCall /\ NoRouting /\ NoRetry /\ NoParsing

NextHash == \E i \in 1..2 : HashErrorLog(i)

SpecHash == InitHash /\ [][NextHash]_vars

\* ------------------------------------------------- repository routing scope
\* A context value that is not a str (a number other than 0)
NotStr == <<"int">>
IsStr(v) == v # Absent /\ v # NotStr
\* ctx.get(key)
CtxGet(ctx, key) == IF Has(ctx, key) THEN Item(ctx, key).value ELSE Absent

\* s.strip()
RECURSIVE LStrip(_)
LStrip(s) == IF s # <<>> /\ Head(s) = " " THEN LStrip(Tail(s)) ELSE s
RECURSIVE RStrip(_)
RStrip(s) == IF s # <<>> /\ s[Len(s)] = " " THEN RStrip(SubSeq(s, 1, Len(s) - 1)) ELSE s
Strip(s) == RStrip(LStrip(s))
\* s.lower(), on the letters the model's service names are written with
Lower(s) == [i \in 1..Len(s) |-> IF s[i] = "S" THEN "s" ELSE s[i]]

\* `a or b or c`
FirstTruthy(a, b, c) == IF Truthy(a) THEN a ELSE IF Truthy(b) THEN b ELSE c

HintKeys == <<"git.repository.url", "vcs.repository.url", "repository.url", "repo.url",
              "repositoryUrl">>
\* the positions of HintKeys whose value is a str that is not blank
UsableHints(ctx) ==
    {i \in 1..Len(HintKeys) : /\ IsStr(CtxGet(ctx, HintKeys[i]))
                              /\ Strip(CtxGet(ctx, HintKeys[i])) # <<>>}
ServiceNameOf(ctx) ==
    FirstTruthy(CtxGet(ctx, "service.name"), CtxGet(ctx, "service_name"),
                CtxGet(ctx, "serviceName"))
\* lower_map.get(svc.lower()): of the keys that agree in lower case the last one wins
LowerMapGet(map, svc) ==
    LET hit == {i \in 1..Len(map) : Lower(map[i].key) = Lower(svc)}
    IN  IF hit = {} THEN Absent
        ELSE map[CHOOSE i \in hit : \A j \in hit : j <= i].value

\* what the service name of ctx is mapped to, or default
ResolveByService(ctx, map, default) ==
    LET service_name == ServiceNameOf(ctx)
    IN  IF IsStr(service_name) /\ Strip(service_name) # <<>>
        THEN LET svc == Strip(service_name)
             IN  IF Has(map, svc) THEN Item(map, svc).value
                 ELSE IF Truthy(LowerMapGet(map, svc)) THEN LowerMapGet(map, svc)
                 ELSE default
        ELSE default

\* a resolution that lets a hint in the context override the event's own URL
resolve_repository_url_hint_first(e, map, default) ==
    LET ctx == e.error_log.context
        hints == UsableHints(ctx)
    IN  IF hints # {}
        THEN Strip(CtxGet(ctx, HintKeys[CHOOSE i \in hints : \A j \in hints : i <= j]))
        ELSE IF Truthy(e.repository_url) THEN e.repository_url
        ELSE ResolveByService(ctx, map, default)

\* _resolve_repository_url(error_event, repo_url_map, default_repo_url)
resolve_repository_url(e, map, default) ==
    LET ctx == e.error_log.context
        hints == UsableHints(ctx)
    IN  IF Truthy(e.repository_url) THEN e.repository_url
        ELSE IF hints # {}
        THEN Strip(CtxGet(ctx, HintKeys[CHOOSE i \in hints : \A j \in hints : i <= j]))
        ELSE ResolveByService(ctx, map, default)

MinShaLen == 7
MaxShaLen == 40
HexDigits == {"0", "1", "2", "3", "4", "5", "6", "7", "8", "9",
              "a", "b", "c", "d", "e", "f", "A", "B", "C", "D", "E", "F"}
\* re.fullmatch(r'(?i)[0-9a-f]{7,40}', s)
IsSha(s) == Len(s) \in MinShaLen..MaxShaLen /\ \A i \in 1..Len(s) : s[i] \in HexDigits

candidate_keys == <<"git.commit.sha", "git.commit", "git.sha", "git.revision",
                    "vcs.ref.head.revision", "vcs.revision", "vcs.revision.id",
                    "revision", "commit">>
\* _extract_repository_ref(context): the first candidate that holds a commit id
extract_repository_ref(context) ==
    LET ok == {i \in 1..Len(candidate_keys) :
                  LET value == CtxGet(context, candidate_keys[i])
                  IN  Truthy(value) /\ IsStr(value) /\ IsSha(Strip(value))}
    IN  IF ok = {} THEN Absent
        ELSE Strip(CtxGet(context, candidate_keys[CHOOSE i \in ok : \A j \in ok : i <= j]))

\* (event.repository_url or os.getenv('DEFAULT_REPOSITORY_URL') or '').strip()
EffectiveUrl(e, default) ==
    Strip(IF Truthy(e.repository_url) THEN e.repository_url ELSE OrEmpty(default))
\* repo_ref or "default"
RefOrDefault(e) ==
    LET repo_ref == extract_repository_ref(e.error_log.context)
    IN  IF Truthy(repo_ref) THEN repo_ref ELSE <<"default">>

\* a cache key that leaves the revision out
CacheKeyWithoutRef(e, default) ==
    LET error_hash == hash_error_log(e.error_log).error_hash
        repo_url == EffectiveUrl(e, default)
    IN  IF repo_url # <<>>
        THEN <<"analysis", ":">> \o repo_url \o <<":">> \o <<"default">> \o <<":">> \o error_hash
        ELSE <<"analysis", ":">> \o error_hash

\* the cache key process_error_log derives from its event
CacheKeyOf(e, default) ==
    LET error_hash == hash_error_log(e.error_log).error_hash
        repo_url == EffectiveUrl(e, default)
    IN  IF repo_url # <<>>
        THEN <<"analysis", ":">> \o repo_url \o <<":">> \o RefOrDefault(e) \o <<":">> \o error_hash
        ELSE <<"analysis", ":">> \o error_hash

\* _apply_repository_routing(error_events, ...), at the end of _parse_event: every
\* event's repository_url is replaced by the resolved one
ApplyRouting ==
    /\ \A t \in Threads : pc[t] = "parse"
    /\ event' = [t \in Threads |->
                    [event[t] EXCEPT !.repository_url =
                        resolve_repository_url(event[t], repo_url_map, default_repo_url)]]
    /\ pc' = [t \in Threads |-> "idle"]
    /\ last' = [op |-> "_apply_repository_routing", key |-> None, value |-> event,
                ttl |-> 0, ret |-> None, removed |-> {}]
    /\ UNCHANGED <<cacheVars, now, inflight, futures, llm_calls, cache_key, options,
                   inflight_future, is_owner, repository_context, analysis, ret, touched,
                   frame, batch, hashVars, repo_url_map, default_repo_url, inflight_lock,
                   openai, request>>

\* process_error_log(event) is called with the thread's event
DeriveKey(t) ==
    \E ttl \in TTLs : Start(t, CacheKeyOf(event[t], default_repo_url), FALSE, ttl)

CtxItem(k, v) == [key |-> k, value |-> v]
ShaA == <<"a", "1", "b", "2", "c", "3", "d">>
ShaB == <<"a", "1", "b", "2", "c", "3", "e">>
LongHex == [i \in 1..(MaxShaLen + 1) |-> "a"]
\* the events the handler parsed
RepoUrls == {Absent, <<"u">>, <<" ", "u">>, <<"w">>}
HintParts ==
    {<<>>,
     <<CtxItem("repository.url", <<"w", " ">>)>>,
     <<CtxItem("repository.url", <<" ">>), CtxItem("service.name", <<"s">>)>>,
     <<CtxItem("service.name", <<"s", " ">>)>>,
     <<CtxItem("service.name", <<"S">>)>>}
RevParts ==
    {<<>>,
     <<CtxItem("revision", ShaA)>>,
     <<CtxItem("revision", ShaB)>>,
     <<CtxItem("revision", <<"m", "a", "i", "n">>)>>,
     <<CtxItem("revision", <<"d", "e", "v">>)>>,
     <<CtxItem("revision", <<" ">> \o ShaA)>>,
     <<CtxItem("revision", LongHex)>>,
     <<CtxItem("git.commit.sha", NotStr), CtxItem("revision", ShaA)>>,
     <<CtxItem("git.commit.sha", ShaB), CtxItem("revision", ShaA)>>}
RouteMessages == {<<"e", "1">>, <<"e", "2">>, <<"f">>}
RouteMaps ==
    {<<>>,
     <<CtxItem(<<"s">>, <<"m">>)>>,
     <<CtxItem(<<"S">>, <<"n">>), CtxItem(<<"s">>, <<"m">>)>>}
DefaultUrls == {Absent, <<"u">>}

RouteEvent(url, m, hint, rev) ==
    [repository_url |-> url,
     error_log |-> [message |-> m, code |-> Absent, file_path |-> Absent, line_number |-> 1,
                    stack_trace |-> Absent, context |-> hint \o rev]]

\* the second event differs from the first in one part
RouteVariants(url, m, hint, rev) ==
    {RouteEvent(u, m, hint, rev) : u \in RepoUrls}
    \cup {RouteEvent(url, x, hint, rev) : x \in RouteMessages}
    \cup {RouteEvent(url, m, h, rev) : h \in HintParts}
    \cup {RouteEvent(url, m, hint, r) : r \in RevParts}

\* two events: either the handler has parsed them and is about to route them, or
\* they are given to the engine as they are
InitRoute ==
    /\ cache = <<>>
    /\ access_order = <<>>
    /\ max_size = Clamp(EngineCap)
    /\ eviction_policy = "LRU"
    /\ hits = 0 /\ misses = 0 /\ writes = 0
    /\ now = 0
    /\ last = NoCall
    /\ inflight = <<>>
    /\ futures = [f \in TicketIds |-> Free]
    /\ llm_calls = 0
    /\ \E at \in {"parse", "idle"} : pc = [t \in Threads |-> at]
    /\ cache_key = [t \in Threads |-> None]
    /\ options = [t \in Threads |-> NoOptions]
    /\ inflight_future = [t \in Threads |-> 0]
    /\ is_owner = [t \in Threads |-> FALSE]
    /\ repository_context = [t \in Threads |-> None]
    /\ analysis = [t \in Threads |-> Nothing]
    /\ ret = [t \in Threads |-> Nothing]
    /\ touched = [t \in Threads |-> {}]
    /\ inflight_lock = None
    /\ \E url \in RepoUrls, m \in RouteMessages, hint \in HintParts, rev \in RevParts :
          \E other \in RouteVariants(url, m, hint, rev) :
             event = [t \in Threads |-> IF t = "t1" THEN RouteEvent(url, m, hint, rev)
                                        ELSE other]
    /\ repo_url_map \in RouteMaps
    /\ default_repo_url \in DefaultUrls
    /\ NoRace /\ NoBatchCall /\ NoHashing /\ NoRetry /\ NoParsing

NextRoute ==
    \/ ApplyRouting
    \/ \E t \in Threads : DeriveKey(t)

SpecRoute == InitRoute /\ [][NextRoute]_vars

\* ------------------------------------------------------ the ticket-table lock
\* process_error_log with `with self._inflight_lock:` taken statement by statement:
\* entering the block is one step, which waits until no thread holds the lock;
\* the block and the exit that releases the lock are the next.
lockRest == <<frame, batch, hashVars, routeVars, openai, request>>

\* a with statement that never gives the lock back
exit_with_keeping_lock(t) == t

\* __exit__ of `with self._inflight_lock:`: the lock is free again
exit_with(t) == None

\* _get_or_create_inflight: with self._inflight_lock: (entered)
EnterGetOrCreate(t) ==
    /\ pc[t] = "acquire"
    /\ inflight_lock = None
    /\ inflight_lock' = t
    /\ pc' = [pc EXCEPT ![t] = "get_or_create"]
    /\ UNCHANGED <<cacheVars, now, last, inflight, futures, llm_calls, cache_key, options,
                   inflight_future, is_owner, repository_context, analysis, ret, touched,
                   lockRest>>

\* _get_or_create_inflight: existing = self._inflight.get(cache_key) ... return,
\* which leaves the with block
GetOrCreateLocked(t) ==
    /\ pc[t] = "get_or_create"
    /\ inflight_lock = t
    /\ LET got == get_or_create_inflight(cache_key[t])
       IN  /\ inflight_future' = [inflight_future EXCEPT ![t] = got[1]]
           /\ is_owner' = [is_owner EXCEPT ![t] = got[2]]
           /\ IF got[2]
              THEN /\ inflight' = MapSet(inflight, cache_key[t], got[1])
                   /\ futures' = [futures EXCEPT ![got[1]] = Pending]
                   /\ pc' = [pc EXCEPT ![t] = "context"]
              ELSE /\ pc' = [pc EXCEPT ![t] = "wait"]
                   /\ UNCHANGED <<inflight, futures>>
    /\ inflight_lock' = exit_with(t)
    /\ UNCHANGED <<cacheVars, now, last, llm_calls, cache_key, options,
                   repository_context, analysis, ret, touched, lockRest>>

\* finally: self._clear_inflight(...): with self._inflight_lock: (entered)
EnterClearInflight(t) ==
    /\ pc[t] = "clear"
    /\ inflight_lock = None
    /\ inflight_lock' = t
    /\ pc' = [pc EXCEPT ![t] = "compare_remove"]
    /\ UNCHANGED <<cacheVars, now, last, inflight, futures, llm_calls, cache_key, options,
                   inflight_future, is_owner, repository_context, analysis, ret, touched,
                   lockRest>>

\* _clear_inflight: current = self._inflight.get(cache_key); if current is future:
\* del; the with block is left and the return or the re-raise reaches the caller
ClearInflightLocked(t) ==
    /\ pc[t] = "compare_remove"
    /\ inflight_lock = t
    /\ inflight' = clear_inflight(cache_key[t], inflight_future[t])
    /\ inflight_lock' = exit_with(t)
    /\ ret' = [ret EXCEPT ![t] = analysis[t]]
    /\ pc' = [pc EXCEPT ![t] = "done"]
    /\ UNCHANGED <<cacheVars, now, last, futures, llm_calls, cache_key, options,
                   inflight_future, is_owner, repository_context, analysis, touched,
                   lockRest>>

\* one statement of thread t's process_error_log call
LockStep(t) ==
    \/ CheckCache(t)
    \/ EnterGetOrCreate(t)
    \/ GetOrCreateLocked(t)
    \/ Wait(t)
    \/ BuildContext(t)
    \/ Analyze(t)
    \/ StoreResult(t)
    \/ Publish(t)
    \/ LogFails(t)
    \/ PublishFailure(t)
    \/ EnterClearInflight(t)
    \/ ClearInflightLocked(t)

NextLock ==
    \/ \E t \in Threads : LockStep(t)
    \/ EngineTick

SpecLock == InitBurst /\ [][NextLock]_vars

\* the same calls when every thread that can take a step eventually takes one:
\* threads are scheduled, and the enrichment provider and the analyzer return or raise
SpecLive == SpecLock /\ \A t \in Threads : WF_vars(LockStep(t))

\* ------------------------------------------- the ticket table called directly
\* _get_or_create_inflight and _clear_inflight called by a thread that is in no
\* process_error_log call: the thread keeps the Future it was given and may
\* release any key with it, any number of times.
CallGetOrCreate(t, key) ==
    /\ inflight_future[t] = 0
    /\ key \in DOMAIN inflight \/ TicketIds \ LiveTickets # {}
    /\ LET got == get_or_create_inflight(key)
       IN  /\ inflight_future' = [inflight_future EXCEPT ![t] = got[1]]
           /\ is_owner' = [is_owner EXCEPT ![t] = got[2]]
           /\ IF got[2]
              THEN /\ inflight' = MapSet(inflight, key, got[1])
                   /\ futures' = [futures EXCEPT ![got[1]] = Pending]
              ELSE UNCHANGED <<inflight, futures>>
           /\ last' = [op |-> "_get_or_create_inflight", key |-> key, future |-> got[1]]
    /\ cache_key' = [cache_key EXCEPT ![t] = key]
    /\ UNCHANGED <<cacheVars, now, llm_calls, pc, options, repository_context, analysis, ret,
                   touched, otherVars>>

CallClearInflight(t, key) ==
    /\ inflight_future[t] # 0
    /\ inflight' = clear_inflight(key, inflight_future[t])
    /\ last' = [op |-> "_clear_inflight", key |-> key, future |-> inflight_future[t]]
    /\ UNCHANGED <<cacheVars, now, futures, llm_calls, threadVars, otherVars>>

\* the thread drops its reference to the Future; an object nothing refers to is gone
DropTicket(t) ==
    /\ inflight_future[t] # 0
    /\ inflight_future' = [inflight_future EXCEPT ![t] = 0]
    /\ is_owner' = [is_owner EXCEPT ![t] = FALSE]
    /\ cache_key' = [cache_key EXCEPT ![t] = None]
    /\ futures' = [f \in TicketIds |->
                      IF /\ f = inflight_future[t]
                         /\ \A u \in Threads \ {t} : inflight_future[u] # f
                         /\ \A k \in DOMAIN inflight : inflight[k] # f
                      THEN Free ELSE futures[f]]
    /\ last' = NoCall
    /\ UNCHANGED <<cacheVars, now, inflight, llm_calls, pc, options, repository_context,
                   analysis, ret, touched, otherVars>>

NextTickets ==
    \/ \E t \in Threads, k \in EngineKeys : CallGetOrCreate(t, k)
    \/ \E t \in Threads, k \in EngineKeys : CallClearInflight(t, k)
    \/ \E t \in Threads : DropTicket(t)

SpecTickets == InitEngine /\ [][NextTickets]_vars

\* ------------------------------------------------------------------ claims

\* ------------------------------------------------ OpenAILLMProvider._call_openai
\* One _call_openai call, statement by statement. openai.errors keeps the error
\* of every failed attempt, openai.tries counts the create() calls and
\* openai.slept adds up the time.sleep arguments (in ms).
MaxRetries == 3
RetryDelayMs == 1000
\* the provider as __init__ leaves it: with a client, without one (no API key),
\* or without the openai package
Clients == {"client", "no_api_key", "no_openai"}
Prompts == {"p1", "p2"}
\* what client.chat.completions.create can raise
ApiErrors == {"RateLimitError", "APITimeoutError", "APIConnectionError"}
\* the response create() gives for the messages
Response(messages) == <<"response", messages>>
retryRest == <<cacheVars, now, last, engineVars, frame, batch, hashVars, routeVars,
               inflight_lock, request>>

\* _call_openai(messages): the two checks before the loop, last_error = None
CallOpenAI(messages) ==
    /\ openai.pc = "idle"
    /\ IF openai.client = "no_openai"
       THEN openai' = [openai EXCEPT !.pc = "raised", !.messages = messages,
                          !.out = [kind |-> "raise", val |-> "ModuleNotFoundError", attempt |-> 0]]
       ELSE IF openai.client = "no_api_key"
       THEN openai' = [openai EXCEPT !.pc = "raised", !.messages = messages,
                          !.out = [kind |-> "raise", val |-> "ValueError", attempt |-> 0]]
       ELSE openai' = [openai EXCEPT !.pc = "try", !.messages = messages,
                          !.attempt = 0, !.last_error = None]
    /\ UNCHANGED retryRest

\* for attempt in range(self.max_retries): response = create(...); return response
CreateReturns ==
    /\ openai.pc = "try"
    /\ openai.attempt < MaxRetries
    /\ openai' = [openai EXCEPT !.pc = "returned", !.tries = @ + 1,
                     !.out = [kind |-> "return", val |-> Response(openai.messages),
                              attempt |-> openai.attempt + 1]]
    /\ UNCHANGED retryRest

\* create(...) raises: except Exception as e: last_error = e
CreateRaises(e) ==
    /\ openai.pc = "try"
    /\ openai.attempt < MaxRetries
    /\ openai' = [openai EXCEPT !.pc = "except", !.tries = @ + 1, !.last_error = e,
                     !.errors = Append(@, e)]
    /\ UNCHANGED retryRest

\* a retry that never moves on to the next attempt
BackoffSameAttempt ==
    /\ openai.pc = "except"
    /\ openai' = [openai EXCEPT !.pc = "try"]
    /\ UNCHANGED retryRest

\* if attempt < self.max_retries - 1: time.sleep(delay_ms / 1000); next attempt
Backoff ==
    /\ openai.pc = "except"
    /\ openai' = [openai EXCEPT
                     !.pc = "try",
                     !.slept = IF openai.attempt < MaxRetries - 1
                               THEN @ + RetryDelayMs * (2 ^ openai.attempt) ELSE @,
                     !.attempt = @ + 1]
    /\ UNCHANGED retryRest

\* the loop is over: raise last_error or Exception('OpenAI API call failed after retries')
Exhausted ==
    /\ openai.pc = "try"
    /\ openai.attempt >= MaxRetries
    /\ openai' = [openai EXCEPT
                     !.pc = "raised",
                     !.out = [kind |-> "raise",
                              val |-> IF openai.last_error # None THEN openai.last_error
                                      ELSE "Exception",
                              attempt |-> 0]]
    /\ UNCHANGED retryRest

InitRetry ==
    /\ cache = <<>>
    /\ access_order = <<>>
    /\ max_size = Clamp(EngineCap)
    /\ eviction_policy = "LRU"
    /\ hits = 0 /\ misses = 0 /\ writes = 0
    /\ EngineInit
    /\ now = 0
    /\ last = NoCall
    /\ \E c \in Clients : openai = [NoProvider EXCEPT !.client = c]
    /\ NoRace /\ NoBatchCall /\ NoHashing /\ NoRouting /\ NoParsing

NextRetry ==
    \/ \E m \in Prompts : CallOpenAI(m)
    \/ CreateReturns
    \/ \E e \in ApiErrors : CreateRaises(e)
    \/ Backoff
    \/ Exhausted

SpecRetry == InitRetry /\ [][NextRetry]_vars

\* every create() call returns or raises, and the thread goes on running
SpecRetryLive == SpecRetry /\ WF_vars(NextRetry)

\* ------------------------------------------------ lambda_handler._parse_event
\* The event is described by what _parse_event looks at: which of the keys it
\* tests are present, the Records list, and what the payloads parse to. A
\* payload is absent, text json.loads rejects, an OTEL log that parse_otel_log
\* turns into an event, an OTEL log it returns None for, or a plain error event.
\* A parsed event is named by the record it came from; the repository routing
\* applied at the end (SpecRoute) changes no event count and is left out here.
MaxRecords == 2
EventKeys == {"resourceLogs", "logs", "Records", "detail", "eventId"}
Payloads == {"otel", "otel_none", "plain", "bad_json"}
RecordForms == [body : Payloads \cup {None}, Sns : Payloads \cup {None}]
parseRest == <<cacheVars, now, last, engineVars, frame, batch, hashVars, routeVars,
               inflight_lock, openai>>

\* what one payload adds to error_events: json.loads, then parse_otel_log when
\* the data holds 'resourceLogs', else _parse_error_event; a failure is caught
\* and logged
ParsedFrom(payload, i, via) ==
    IF payload \in {"otel", "plain"} THEN <<[record |-> i, via |-> via, form |-> payload]>>
    ELSE <<>>

RECURSIVE ParseRecords(_, _, _)
\* for record in event['Records']: if <via> in record: ...
ParseRecords(records, i, via) ==
    IF i > Len(records) THEN <<>>
    ELSE (IF records[i][via] # None THEN ParsedFrom(records[i][via], i, via) ELSE <<>>)
         \o ParseRecords(records, i + 1, via)

\* the branch of _parse_event the event reaches: the tests in their order
BranchOf(ev) ==
    IF "resourceLogs" \in ev.keys THEN "otel"
    ELSE IF "logs" \in ev.keys THEN "otel_batch"
    ELSE IF "Records" \in ev.keys /\ ev.Records # <<>> THEN "sqs"
    ELSE IF "Records" \in ev.keys /\ \E i \in 1..Len(ev.Records) : ev.Records[i].Sns # None
    THEN "sns"
    ELSE IF "detail" \in ev.keys THEN "eventbridge"
    ELSE IF "eventId" \in ev.keys THEN "direct"
    ELSE "none"

\* the error events the branch collects
parse_event(ev) ==
    LET branch == BranchOf(ev)
    IN  IF branch \in {"otel", "otel_batch", "eventbridge"} THEN ParsedFrom(ev.top, 0, branch)
        ELSE IF branch = "sqs" THEN ParseRecords(ev.Records, 1, "body")
        ELSE IF branch = "sns" THEN ParseRecords(ev.Records, 1, "Sns")
        ELSE IF branch = "direct" THEN <<[record |-> 0, via |-> "direct", form |-> "plain"]>>
        ELSE <<>>

\* error_events = _parse_event(event)
ParseEvent ==
    /\ request.pc = "idle"
    /\ request' = [request EXCEPT !.pc = "parsed", !.branch = BranchOf(request.event),
                                  !.error_events = parse_event(request.event)]
    /\ UNCHANGED parseRest

\* if not error_events: return {'statusCode': 400, ...}; else the events go to the engine
HandlerChecks ==
    /\ request.pc = "parsed"
    /\ request' = [request EXCEPT !.pc = IF request.error_events = <<>> THEN "status400"
                                         ELSE "process"]
    /\ UNCHANGED parseRest

InitParse ==
    /\ cache = <<>>
    /\ access_order = <<>>
    /\ max_size = Clamp(EngineCap)
    /\ eviction_policy = "LRU"
    /\ hits = 0 /\ misses = 0 /\ writes = 0
    /\ EngineInit
    /\ now = 0
    /\ last = NoCall
    /\ \E keys \in SUBSET EventKeys, n \in 0..MaxRecords, top \in {"otel", "otel_none", "plain"} :
          \E records \in [1..n -> RecordForms] :
             /\ "Records" \notin keys => n = 0
             /\ request = [NoRequest EXCEPT !.event = [keys |-> keys, Records |-> records,
                                                        top |-> top]]
    /\ NoRace /\ NoBatchCall /\ NoHashing /\ NoRouting /\ NoRetry

NextParse ==
    \/ ParseEvent
    \/ HandlerChecks

SpecParse == InitParse /\ [][NextParse]_vars

\* The thread whose step this is: every step of process_error_log moves its thread's pc.
Steps(t) == pc'[t] # pc[t]
Waiter(t) == ~is_owner[t] /\ inflight_future[t] # 0

\* C1: two concurrent process_error_log calls with the same cache key, started on
\* an empty cache and an empty ticket table, invoke the analyzer exactly once and
\* return equal results. Stated for the case of the test: no call skips the
\* cache, no time has passed (nothing has expired) and no analyzer call failed.
C1_SingleFlight ==
    (/\ \A t \in Threads : pc[t] = "done" /\ ~options[t].skip_cache /\ ret[t].kind = "return"
     /\ now = 0)
        => (llm_calls = 1 /\ \A t, u \in Threads : ret[t] = ret[u])

C3_TicketCleared ==
    [][\A t \in Threads :
          /\ (pc[t] = "clear" /\ pc'[t] = "done") => cache_key[t] \notin DOMAIN inflight'
          /\ (pc[t] = "acquire" /\ Steps(t) /\ cache_key[t] \notin DOMAIN inflight)
                => (is_owner'[t] /\ pc'[t] = "context")]_vars

C3_Witness ==
    \E t, u \in Threads :
        /\ pc[t] = "done" /\ is_owner[t] /\ ret[t].kind = "raise"
        /\ u # t /\ cache_key[u] = cache_key[t] /\ is_owner[u] /\ pc[u] = "context"
        /\ inflight_future[u] # inflight_future[t]

\* C4 as claimed: a request whose analyzer call failed leaves the entry table as
\* it found it.
C4_TableUntouched ==
    \A t \in Threads :
        (pc[t] = "done" /\ is_owner[t] /\ ret[t].kind = "raise") => touched[t] = {}

\* C4 as amended: a request whose analyzer call failed made no cache.set (the one
\* change it can have made to the table is its initial get removing the key's
\* expired entry), and it raises the analyzer's failure to its caller.
C4_NothingCachedOnFailure ==
    \A t \in Threads :
        (is_owner[t] /\ analysis[t].kind = "raise")
            => /\ "written" \notin touched[t]
               /\ pc[t] \in {"fail", "clear", "done"}
               /\ pc[t] = "done" => ret[t] = analysis[t]

C4_Witness ==
    \E t \in Threads :
        /\ pc[t] = "done" /\ is_owner[t] /\ ret[t].kind = "raise"
        /\ ~options[t].skip_cache /\ touched[t] = {"removed"}

\* C5: a call with skip_cache = true goes straight to _get_or_create_inflight,
\* where it becomes owner or takes the existing ticket of its key, and no step
\* of it changes the cache: entries, access order, capacity and counters.
C5_SkipCache ==
    [][\A t \in Threads :
          (Steps(t) /\ (options[t].skip_cache \/ options'[t].skip_cache))
             => /\ UNCHANGED cacheVars
                /\ pc[t] = "idle" => pc'[t] = "acquire"
                /\ pc'[t] \notin {"get", "set"}
                /\ pc[t] = "acquire" =>
                      IF cache_key[t] \in DOMAIN inflight
                      THEN /\ ~is_owner'[t] /\ pc'[t] = "wait"
                           /\ inflight_future'[t] = inflight[cache_key[t]]
                           /\ UNCHANGED inflight
                      ELSE /\ is_owner'[t] /\ pc'[t] = "context"
                           /\ inflight'[cache_key[t]] = inflight_future'[t]]_vars

C5_Witness ==
    \E w, o \in Threads :
        /\ options[w].skip_cache /\ pc[w] = "done" /\ Waiter(w) /\ ret[w].kind = "return"
        /\ ~options[o].skip_cache /\ is_owner[o] /\ inflight_future[o] = inflight_future[w]
        /\ pc[o] = "done"

\* The direct call a step of SpecCache makes is the one last' records.
IsSet == last'.op = "set"
IsGet == last'.op = "get"
\* the table and the access times of a set after its write, before its eviction
Written == DictSet(cache, last'.key,
                   [key |-> last'.key, value |-> last'.value, expires_at |-> now + last'.ttl])
Touched == MapSet(access_order, last'.key, now)
\* the keys a step removed from the table d it started from
Gone(d) == KeySet(d) \ KeySet(cache')
Before(d, a, b) == IndexOf(d, a) < IndexOf(d, b)

\* C6: under both policies and also on a full cache, a get(k) right after
\* set(k, v, ttl) returns v: the key just written is not the one set evicts.
C6_RoundTrip ==
    [][\A k \in Keys :
          (IsSet /\ last'.key = k) => (Has(cache', k) /\ GetResult(k)' = last'.value)]_vars

C6_Witness ==
    /\ last.op = "set" /\ last.removed # {}
    /\ Len(cache) = max_size
    /\ GetResult(last.key) = last.value

\* C7: a get returns a value only from an entry that has not expired, and that
\* entry's value; a get of an entry whose expiry time (write time + ttl) is in
\* the past returns absent and removes the entry and its access time.
C7_Expiry ==
    [][/\ IsGet =>
            LET k == last'.key
            IN  /\ last'.ret # None =>
                      (Has(cache, k) /\ now <= Item(cache, k).expires_at
                         /\ last'.ret = Item(cache, k).value)
                /\ (Has(cache, k) /\ now > Item(cache, k).expires_at) =>
                      /\ last'.ret = None
                      /\ ~Has(cache', k)
                      /\ k \notin DOMAIN access_order'
       /\ IsSet => Item(cache', last'.key).expires_at = now + last'.ttl]_vars

C7_Witness ==
    /\ last.op = "get" /\ last.ret = None /\ last.removed = {last.key}
    /\ ~Has(cache, last.key)

\* C8: the table never holds more than max_size entries, and a set of a new key
\* adds one entry to a table below max_size and leaves a full table full; so
\* max_size + N distinct keys written to an empty cache leave exactly max_size.
C8_Bound ==
    /\ [](Len(cache) <= max_size)
    /\ [][(IsSet /\ ~Has(cache, last'.key)) =>
             Len(cache') = (IF Len(cache) < max_size THEN Len(cache) + 1 ELSE max_size)]_vars

C8_Witness ==
    /\ last.op = "set" /\ last.removed # {}
    /\ max_size = 2 /\ Len(cache) = max_size
    /\ writes = max_size + 1 /\ hits + misses = 0

\* C9: under LRU a set evicts exactly currentSize - maxSize entries, each with an
\* older last-access time than every entry it keeps, or with the same time and an
\* earlier place in the table's insertion order; the set refreshes the access
\* time of its key and a successful get refreshes the access time of its key.
C9_LRU ==
    [][eviction_policy = "LRU" =>
         /\ IsSet =>
              /\ Cardinality(Gone(Written)) =
                     (IF Len(Written) > max_size THEN Len(Written) - max_size ELSE 0)
              /\ \A e \in Gone(Written), s \in KeySet(cache') :
                     \/ AccessOf(Touched, e) < AccessOf(Touched, s)
                     \/ AccessOf(Touched, e) = AccessOf(Touched, s) /\ Before(Written, e, s)
              /\ access_order'[last'.key] = now
         /\ (IsGet /\ last'.ret # None) =>
              /\ access_order'[last'.key] = now
              /\ \A j \in KeySet(cache) \ {last'.key} : access_order'[j] = access_order[j]]_vars

\* a set has evicted under LRU and kept a key that was written earlier than the
\* new one and read since
C9_Witness ==
    /\ eviction_policy = "LRU" /\ last.op = "set" /\ last.removed # {}
    /\ Len(cache) = 2 /\ hits > 0 /\ now > 0
    /\ cache[1].expires_at < cache[2].expires_at
    /\ access_order[cache[1].key] = access_order[cache[2].key]

\* C10: under FIFO a set evicts exactly currentSize - maxSize entries, each of them
\* earlier in the table's insertion order than every entry it keeps; a get leaves
\* the order of the remaining keys as it was, and a successful get changes
\* nothing about which entries an eviction would take.
C10_FIFO ==
    [][eviction_policy = "FIFO" =>
         /\ IsSet =>
              /\ Cardinality(Gone(Written)) =
                     (IF Len(Written) > max_size THEN Len(Written) - max_size ELSE 0)
              /\ \A e \in Gone(Written), s \in KeySet(cache') : Before(Written, e, s)
         /\ IsGet =>
              /\ \A a, b \in KeySet(cache') : Before(cache', a, b) <=> Before(cache, a, b)
              /\ last'.ret # None =>
                    \A m \in 1..Len(cache) :
                        EvictedKeys(cache', access_order', m, eviction_policy)
                          = EvictedKeys(cache, access_order, m, eviction_policy)]_vars

\* a set has evicted under FIFO after a successful get, and the key it kept has
\* not been accessed since time 0
C10_Witness ==
    /\ eviction_policy = "FIFO" /\ last.op = "set" /\ last.removed # {}
    /\ Len(cache) = 2 /\ hits > 0 /\ now > 0
    /\ AccessOf(access_order, cache[1].key) = 0

\* C11: with the cache called from two threads at once (a set next to a set of
\* another key, or next to a get, a delete or a clear_expired), no set raises:
\* every write is accepted; and once every call has returned the table holds at
\* most max_size entries.
C11_ParallelSafe ==
    /\ \A t \in Threads : frame[t].op = "set" => frame[t].exc = None
    /\ (\A t \in Threads : frame[t].pc = "idle") => Len(cache) <= max_size

\* C12: process_error_batch returns one slot per input event, in input order: the
\* slot added when a process_error_log call ends is that event's, it holds the
\* call's result, or None when the call raised; the loop then goes on, so the
\* list returned is as long as the input.
C12_BatchSlots ==
    /\ [](batch.returned =>
             (batch.i = Len(batch.events) /\ Len(batch.results) = Len(batch.events)))
    /\ [][(pc[BatchThread] = "done" /\ pc'[BatchThread] = "idle") =>
             /\ ~batch'.returned
             /\ Len(batch.results) + 1 = batch.i
             /\ cache_key[BatchThread] = batch.events[batch.i]
             /\ batch'.results = Append(batch.results,
                                        IF ret[BatchThread].kind = "raise" THEN None
                                        ELSE ret[BatchThread].val)
             /\ ret[BatchThread].kind = "return" => ret[BatchThread].val \in Values]_vars

\* three events, the second of which failed: a 3-slot list with one None at index 2
C12_Witness ==
    /\ batch.returned /\ Len(batch.events) = 3
    /\ batch.results[1] # None /\ batch.results[2] = None /\ batch.results[3] # None

\* C13: a failure of the code-context step never aborts the request: an owner
\* that has left the step goes on to the analyzer, and the outcome of an owner's
\* request is the analyzer's, a result or the analyzer's own failure.
C13_ContextNeverAborts ==
    \A t \in Threads :
        /\ (is_owner[t] /\ pc[t] \in {"set", "publish", "fail", "clear", "done"})
              => analysis[t].val \in Values \cup Errors
        /\ (is_owner[t] /\ pc[t] = "done") => ret[t].val \in Values \cup Errors

\* C14: no counter ever decreases; a get adds one to exactly one of hits and
\* misses (to misses when the key is absent or its entry has expired, to hits
\* otherwise) and leaves writes alone; a set adds one to writes, also when it
\* evicts, and leaves hits and misses alone; delete, clear_expired and
\* set_max_size change no counter. So hits + misses counts the get calls and
\* writes counts the set calls.
C14_Counters ==
    [][/\ hits' >= hits /\ misses' >= misses /\ writes' >= writes
       /\ IsGet =>
             /\ hits' + misses' = hits + misses + 1
             /\ writes' = writes
             /\ (misses' = misses + 1) <=>
                    (~Has(cache, last'.key) \/ now > Item(cache, last'.key).expires_at)
       /\ IsSet => (writes' = writes + 1 /\ hits' = hits /\ misses' = misses)
       /\ (~IsGet /\ ~IsSet) => UNCHANGED <<hits, misses, writes>>]_vars

\* two writes, the second of which evicted, one hit, and a get of an expired entry
C14_Witness ==
    /\ last.op = "get" /\ last.ret = None /\ last.removed = {last.key}
    /\ hits = 1 /\ misses = 1 /\ writes = 2 /\ max_size = 1

\* both records have been hashed
Hashed == DOMAIN normalized = {1, 2}
SameExcept(l, r, fields) ==
    /\ "message" \in fields \/ l.message = r.message
    /\ "code" \in fields \/ l.code = r.code
    /\ "file_path" \in fields \/ l.file_path = r.file_path
    /\ "stack_trace" \in fields \/ l.stack_trace = r.stack_trace
    /\ "line_number" \in fields \/ l.line_number = r.line_number
    /\ "context" \in fields \/ l.context = r.context

\* the path from its first src, lib or app segment onward, separators as '/';
\* <<>> when it has no such segment
FromRoot(p) ==
    LET q == [i \in 1..Len(p) |-> IF p[i] = "\\" THEN "/" ELSE p[i]]
        starts == {i \in 1..Len(q) - 1 :
                      q[i] \in Roots /\ q[i + 1] = "/" /\ (i = 1 \/ q[i - 1] = "/")}
    IN  IF starts = {} THEN <<>>
        ELSE SubSeq(q, CHOOSE i \in starts : \A j \in starts : i <= j, Len(q))

\* C17: two records that differ only in what stands in front of the source-root
\* segment of the file path (other directories, a drive letter, a leading slash,
\* or nothing: the path given relative from the segment) have equal
\* fingerprints, and the normalized path is the path from that segment onward.
C17_PathPrefix ==
    Hashed =>
        LET l == error_log[1]
            r == error_log[2]
        IN  (/\ SameExcept(l, r, {"file_path"})
             /\ Truthy(l.file_path) /\ Truthy(r.file_path)
             /\ FromRoot(l.file_path) # <<>>
             /\ FromRoot(l.file_path) = FromRoot(r.file_path))
                => /\ normalized[1].error_hash = normalized[2].error_hash
                   /\ normalized[1].file_path = FromRoot(l.file_path)
                   /\ normalized[2].file_path = FromRoot(r.file_path)

\* m and n are the same but for the value of one quoted literal
LiteralVariant(m, n) ==
    \E i \in 1..Len(m) : \E j \in (i + 1)..Len(m), k \in (i + 1)..Len(n) :
        /\ m[i] \in Quotes /\ m[j] = m[i] /\ n[k] = m[i]
        /\ SubSeq(m, 1, i) = SubSeq(n, 1, i)
        /\ Drop(m, j) = Drop(n, k)
        /\ \A x \in (i + 1)..(j - 1) : m[x] \notin Quotes
        /\ \A x \in (i + 1)..(k - 1) : n[x] \notin Quotes

\* s and t are the same but for the digits of the run that starts at place i
RunVariantAt(s, t, i) ==
    /\ i <= Len(s) /\ i <= Len(t)
    /\ SubSeq(s, 1, i - 1) = SubSeq(t, 1, i - 1)
    /\ (i = 1 \/ s[i - 1] \notin Digits)
    /\ DigitRun(Drop(s, i - 1)) > 0 /\ DigitRun(Drop(t, i - 1)) > 0
    /\ Drop(s, i - 1 + DigitRun(Drop(s, i - 1))) = Drop(t, i - 1 + DigitRun(Drop(t, i - 1)))
DigitVariant(m, n) == \E i \in 1..Len(m) : RunVariantAt(m, n, i)

\* s and t are the same but for the numbers of one :line:column pair
LineColVariant(s, t) ==
    \E i \in 1..Len(s) :
        LET a == DigitRun(Drop(s, i))
            b == DigitRun(Drop(t, i))
            s2 == Drop(s, i + a)
            t2 == Drop(t, i + b)
        IN  /\ i <= Len(t) /\ s[i] = ":" /\ SubSeq(s, 1, i) = SubSeq(t, 1, i)
            /\ a > 0 /\ b > 0
            /\ s2 # <<>> /\ t2 # <<>> /\ Head(s2) = ":" /\ Head(t2) = ":"
            /\ DigitRun(Tail(s2)) > 0 /\ DigitRun(Tail(t2)) > 0
            /\ Drop(s2, 1 + DigitRun(Tail(s2))) = Drop(t2, 1 + DigitRun(Tail(t2)))

\* s and t are the same but for the number of one 'at <digits>ms' timestamp
AtMsVariant(s, t) ==
    \E i \in 4..Len(s) :
        /\ SubSeq(s, i - 3, i - 1) = <<"a", "t", " ">>
        /\ RunVariantAt(s, t, i)
        /\ StartsWith(Drop(s, i - 1 + DigitRun(Drop(s, i - 1))), <<"m", "s">>)

\* C18: two records that differ only in the value of a quoted literal or in a
\* digit run of the message, in a :line:column pair or an 'at <digits>ms'
\* timestamp of the stack trace, in the line number or in the context have
\* equal fingerprints.
C18_VolatileParts ==
    Hashed =>
        LET l == error_log[1]
            r == error_log[2]
        IN  (/\ SameExcept(l, r, {"message", "stack_trace", "line_number", "context"})
             /\ \/ l.message = r.message
                \/ LiteralVariant(l.message, r.message)
                \/ DigitVariant(l.message, r.message)
             /\ \/ l.stack_trace = r.stack_trace
                \/ /\ Truthy(l.stack_trace) /\ Truthy(r.stack_trace)
                   /\ \/ LineColVariant(l.stack_trace, r.stack_trace)
                      \/ AtMsVariant(l.stack_trace, r.stack_trace))
                => normalized[1].error_hash = normalized[2].error_hash

\* C19 as claimed: two records whose message, error code or file path differ (an
\* absent code or path counting as the empty string) have different fingerprints.
C19_DifferentRecords ==
    Hashed =>
        LET l == error_log[1]
            r == error_log[2]
        IN  (\/ l.message # r.message
             \/ OrEmpty(l.code) # OrEmpty(r.code)
             \/ OrEmpty(l.file_path) # OrEmpty(r.file_path))
                => normalized[1].error_hash # normalized[2].error_hash

NoBar(s) == \A i \in 1..Len(s) : s[i] # "|"
NoBars(n) ==
    /\ NoBar(n.error_message) /\ NoBar(OrEmpty(n.error_code))
    /\ NoBar(OrEmpty(n.file_path)) /\ NoBar(OrEmpty(n.stack_trace))

\* C19 as amended: two records whose normalized message, error code or normalized
\* file path differ (an absent code or path counting as the empty string), none
\* of the four joined fields holding the delimiter '|', have different joined
\* strings and so different fingerprints.
C19_DifferentNormalized ==
    Hashed =>
        LET n == normalized[1]
            o == normalized[2]
        IN  (/\ NoBars(n) /\ NoBars(o)
             /\ \/ n.error_message # o.error_message
                \/ OrEmpty(n.error_code) # OrEmpty(o.error_code)
                \/ OrEmpty(n.file_path) # OrEmpty(o.file_path))
                => n.error_hash # o.error_hash

\* 'Error A' / 'Error B' of test_hash_uniqueness: the messages differ, nothing else
C19_Witness ==
    /\ Hashed
    /\ SameExcept(error_log[1], error_log[2], {"message"})
    /\ normalized[1].error_message # normalized[2].error_message
    /\ NoBars(normalized[1]) /\ NoBars(normalized[2])
    /\ normalized[1].error_hash # normalized[2].error_hash

\* The events as _apply_repository_routing found them, once it has run.
Routed == last.op = "_apply_repository_routing"
HintOf(ctx) ==
    LET usable == {i \in 1..Len(HintKeys) :
                      LET v == CtxGet(ctx, HintKeys[i]) IN IsStr(v) /\ Strip(v) # <<>>}
    IN  IF usable = {} THEN Absent
        ELSE Strip(CtxGet(ctx, HintKeys[CHOOSE i \in usable : \A j \in usable : i <= j]))
ServiceOf(ctx) ==
    LET v == ServiceNameOf(ctx)
    IN  IF IsStr(v) /\ Strip(v) # <<>> THEN Strip(v) ELSE Absent
MatchesIgnoringCase(svc) ==
    {i \in 1..Len(repo_url_map) : Lower(repo_url_map[i].key) = Lower(svc)}

\* C20: routing resolves each event's repository URL by precedence: a URL already
\* on the event stays; otherwise the first usable URL hint of the context,
\* stripped; otherwise the URL REPOSITORY_URL_MAP gives the service name, by exact
\* match and then by a match ignoring case; otherwise DEFAULT_REPOSITORY_URL.
C20_RoutingPrecedence ==
    Routed =>
        \A t \in Threads :
            LET before == last.value[t]
                ctx == before.error_log.context
                url == event[t].repository_url
                svc == ServiceOf(ctx)
            IN  IF Truthy(before.repository_url) THEN url = before.repository_url
                ELSE IF HintOf(ctx) # Absent THEN url = HintOf(ctx)
                ELSE IF svc # Absent /\ Has(repo_url_map, svc)
                THEN url = Item(repo_url_map, svc).value
                ELSE IF svc # Absent /\ MatchesIgnoringCase(svc) # {}
                THEN \E i \in MatchesIgnoringCase(svc) : url = repo_url_map[i].value
                ELSE url = default_repo_url

\* routing has run on an event without URL or hint whose service name is a key of
\* the map only when case is ignored, and the event now carries the mapped URL
C20_Witness ==
    /\ Routed
    /\ \E t \in Threads :
          LET before == last.value[t]
              svc == ServiceOf(before.error_log.context)
          IN  /\ ~Truthy(before.repository_url)
              /\ HintOf(before.error_log.context) = Absent
              /\ svc # Absent
              /\ ~Has(repo_url_map, svc)
              /\ MatchesIgnoringCase(svc) # {}
              /\ event[t].repository_url # default_repo_url
              /\ pc[t] = "get"

\* process_error_log has derived the thread's cache key
Keyed(t) == pc[t] = "get"
Fingerprint(t) == hash_error_log(event[t].error_log).error_hash
\* the revision the context names: its first candidate entry that is set
RevisionNamed(t) ==
    LET ctx == event[t].error_log.context
        named == {i \in 1..Len(candidate_keys) : Truthy(CtxGet(ctx, candidate_keys[i]))}
    IN  IF named = {} THEN Absent
        ELSE LET v == CtxGet(ctx, candidate_keys[CHOOSE i \in named : \A j \in named : i <= j])
             IN  IF IsStr(v) THEN Strip(v) ELSE v
UrlInEffect(t) == EffectiveUrl(event[t], default_repo_url)
RefResolved(t) == extract_repository_ref(event[t].error_log.context)

\* C15 as stated: two events with the same fingerprint whose repository URL or
\* whose revision reference in the context differs get different cache keys.
C15_ScopeSeparatesKeys ==
    \A t1, t2 \in Threads :
        (/\ Keyed(t1) /\ Keyed(t2)
         /\ Fingerprint(t1) = Fingerprint(t2)
         /\ \/ UrlInEffect(t1) # UrlInEffect(t2)
            \/ RevisionNamed(t1) # RevisionNamed(t2))
        => cache_key[t1] # cache_key[t2]

\* C15, amended: two events with the same fingerprint get different cache keys
\* when the repository URLs in effect for them (the event's, else
\* DEFAULT_REPOSITORY_URL, stripped) differ, or when one non-empty URL is in effect
\* for both and the commit ids resolved from their contexts differ. Stated from
\* the shared key: two such events that have one cache key have one URL in
\* effect and, if it is not empty, one resolved commit id.
C15_ResolvedScopeSeparatesKeys ==
    \A t1 \in Threads : \A t2 \in Threads \ {t1} :
        (/\ Keyed(t1) /\ Keyed(t2)
         /\ cache_key[t1] = cache_key[t2]
         /\ Fingerprint(t1) = Fingerprint(t2))
        => /\ UrlInEffect(t1) = UrlInEffect(t2)
           /\ UrlInEffect(t1) # <<>> => RefResolved(t1) = RefResolved(t2)

\* both keys are derived for events with one fingerprint and one repository URL:
\* one names a commit id, the other names none, and the keys differ
C15_Witness ==
    /\ Keyed("t1") /\ Keyed("t2")
    /\ Fingerprint("t1") = Fingerprint("t2")
    /\ UrlInEffect("t1") = UrlInEffect("t2")
    /\ UrlInEffect("t1") # <<>>
    /\ RefResolved("t1") # Absent
    /\ RefResolved("t1") # RefResolved("t2")
    /\ cache_key["t1"] # cache_key["t2"]

IsClearExpired == last'.op = "clear_expired"
IsDelete == last'.op = "delete"
PastExpiry(d) == {k \in KeySet(d) : now > Item(d, k).expires_at}

\* C27: clear_expired removes every entry whose expiry time has passed, read or
\* never read, and leaves every other entry with its value, expiry time and
\* access time, in its place, and leaves capacity, policy and all counters as
\* they were.
C27_SweepFrame ==
    [][IsClearExpired =>
         /\ cache' = SelectSeq(cache, LAMBDA e : ~(now > e.expires_at))
         /\ \A k \in PastExpiry(cache) : ~Has(cache', k) /\ k \notin DOMAIN access_order'
         /\ \A k \in KeySet(cache) \ PastExpiry(cache) :
               /\ Has(cache', k) /\ Item(cache', k) = Item(cache, k)
               /\ AccessOf(access_order', k) = AccessOf(access_order, k)
         /\ UNCHANGED <<max_size, eviction_policy, hits, misses, writes>>]_vars

\* a sweep removed an entry that no get ever returned and kept another one, which
\* expires at the moment of the sweep
C27_Witness ==
    /\ last.op = "clear_expired" /\ last.removed # {}
    /\ hits = 0
    /\ \E i \in 1..Len(cache) : cache[i].expires_at = now

\* C28: clear_expired returns the number of entries it removed.
C28_SweepReturnsCount ==
    (last.op = "clear_expired" /\ last.removed # {})
        => (last.ret # None /\ last.ret = Cardinality(last.removed))

\* C29: delete(k) leaves k absent from the table, so that get(k) gives None,
\* whether or not k was there; every other entry, its access time, the capacity,
\* the policy and the counters are as before; a delete of an absent key and a
\* second delete of the same key change nothing.
C29_DeleteFrame ==
    [][\A k \in Keys :
          (IsDelete /\ last'.key = k) =>
             /\ ~Has(cache', k) /\ GetResult(k)' = None
             /\ cache' = SelectSeq(cache, LAMBDA e : e.key # k)
             /\ \A j \in KeySet(cache) \ {k} :
                   AccessOf(access_order', j) = AccessOf(access_order, j)
             /\ UNCHANGED <<max_size, eviction_policy, hits, misses, writes>>
             /\ (~Has(cache, k) \/ (last.op = "delete" /\ last.key = k))
                   => UNCHANGED cacheVars]_vars

\* a delete was made of a key that is not in the table (never written, evicted or
\* deleted before) while the table holds a live entry of another key
C29_Witness ==
    /\ last.op = "delete" /\ last.removed = {}
    /\ Len(cache) = 1 /\ writes = 2 /\ now > 0
    /\ ~Has(cache, last.key)
    /\ \E i \in 1..Len(cache) : now <= cache[i].expires_at

\* the thread is between the creation of its ticket and its removal
HoldsTicket(t) == is_owner[t] /\ pc[t] \in {"context", "analyze", "set", "publish", "fail", "clear"}
OwnersOf(k) == {t \in Threads : HoldsTicket(t) /\ cache_key[t] = k}

\* C21: for each cache key at most one thread at a time is owner of a ticket for
\* it, and that ticket is the one the table holds for the key; a thread is in the
\* analyzer only as an owner, so at most one analyzer call per key is in progress,
\* and every analyzer call is made by a thread with is_owner = true.
C21_OneOwnerPerKey ==
    /\ [](\A k \in EngineKeys :
             /\ Cardinality(OwnersOf(k)) <= 1
             /\ Cardinality({t \in Threads : pc[t] = "analyze" /\ cache_key[t] = k}) <= 1
             /\ \A t \in OwnersOf(k) : k \in DOMAIN inflight /\ inflight[k] = inflight_future[t])
    /\ [](\A t \in Threads : pc[t] \in {"context", "analyze"} => is_owner[t])
    /\ [][llm_calls' # llm_calls =>
            \E t \in Threads : Steps(t) /\ pc[t] = "analyze" /\ is_owner[t]]_vars

\* one thread is in the analyzer as owner while the other waits on the same ticket
C21_Witness ==
    \E o, w \in Threads :
        /\ pc[o] = "analyze" /\ is_owner[o]
        /\ pc[w] = "wait" /\ ~is_owner[w]
        /\ cache_key[w] = cache_key[o] /\ inflight_future[w] = inflight_future[o]

\* C22: a call with skip_cache = false whose cache.get finds an unexpired entry
\* returns that entry's value at once: the step creates and reads no ticket, calls
\* neither the enrichment provider nor the analyzer, and writes nothing to the
\* cache (the table, the capacity and the write counter stay as they are).
C22_FastPath ==
    [][\A t \in Threads :
          (pc[t] = "get" /\ Steps(t) /\ GetResult(cache_key[t]) # None) =>
             /\ ~options[t].skip_cache
             /\ pc'[t] = "done"
             /\ ret'[t] = [kind |-> "return", val |-> Item(cache, cache_key[t]).value]
             /\ UNCHANGED <<inflight, futures, llm_calls, repository_context, analysis>>
             /\ inflight_future'[t] = 0 /\ ~is_owner'[t]
             /\ UNCHANGED <<cache, max_size, writes>>
             /\ touched'[t] = {}]_vars

\* a call was answered from the cache while the other thread holds a ticket
C22_Witness ==
    \E t, o \in Threads :
        /\ pc[t] = "done" /\ inflight_future[t] = 0 /\ ret[t].kind = "return" /\ hits > 0
        /\ HoldsTicket(o)

IsClearInflight == last'.op = "_clear_inflight"

\* C25: _clear_inflight(key, ticket) removes the table's entry for key when the
\* ticket the table holds for key is this very ticket, and leaves every other
\* entry; called with any other ticket, or for a key without ticket, it leaves
\* the table as it is. It settles no ticket.
C25_CompareAndRemove ==
    [][IsClearInflight =>
         LET key == last'.key
             future == last'.future
         IN  /\ IF key \in DOMAIN inflight /\ inflight[key] = future
                THEN /\ DOMAIN inflight' = DOMAIN inflight \ {key}
                     /\ \A k \in DOMAIN inflight' : inflight'[k] = inflight[k]
                ELSE inflight' = inflight
             /\ UNCHANGED futures]_vars

\* a thread released a key with a ticket it still holds while the table has
\* a newer ticket for that key, and the newer ticket is still there
C25_Witness ==
    /\ last.op = "_clear_inflight"
    /\ last.key \in DOMAIN inflight
    /\ inflight[last.key] # last.future
    /\ futures[inflight[last.key]] = Pending
    /\ \E t \in Threads : inflight_future[t] = last.future /\ cache_key[t] = last.key

\* an earlier event of the batch had the key the batch thread now asks for, and
\* its call gave a result: by then the key's entry was in the cache
AnsweredBefore ==
    \E j \in 1..Len(batch.results) :
        batch.events[j] = cache_key[BatchThread] /\ batch.results[j] # None
BatchStep(at) == pc[BatchThread] = at /\ Steps(BatchThread)

\* C30 as stated: an entry written with options.cache_ttl = T is served to the
\* requests for its key until T after the write, and the first request after
\* that misses and becomes owner. Every write of the batch is made at time 0 or
\* later, so up to time T every written entry is within its T.
C30_ServedUntilTtl ==
    [][/\ (BatchStep("get") /\ AnsweredBefore /\ now <= batch.options.cache_ttl)
            => pc'[BatchThread] = "done"
       /\ (BatchStep("get") /\ Has(cache, cache_key[BatchThread])
             /\ now > Item(cache, cache_key[BatchThread]).expires_at)
            => pc'[BatchThread] = "acquire"]_vars

\* C30, amended: the owner's write gives the entry the expiry time (time of the
\* write + cache_ttl); a request that does not skip the cache is answered with
\* the entry's value exactly when the entry is in the table and the time is not
\* past its expiry; a request that finds it after that removes it, counts a miss
\* and goes on to the ticket table, where without a ticket for its key it becomes
\* owner, and the owner's analyzer call is counted.
C30_ServedWhileInTable ==
    [][LET t == BatchThread
           k == cache_key[t]
       IN  /\ BatchStep("set") =>
                 /\ Has(cache', k)
                 /\ Item(cache', k).expires_at = now + options[t].cache_ttl
                 /\ Item(cache', k).value = analysis[t].val
           /\ BatchStep("get") =>
                 IF Has(cache, k) /\ now <= Item(cache, k).expires_at
                 THEN /\ pc'[t] = "done"
                      /\ ret'[t] = [kind |-> "return", val |-> Item(cache, k).value]
                      /\ UNCHANGED <<cache, llm_calls>>
                 ELSE /\ pc'[t] = "acquire"
                      /\ ~Has(cache', k)
                      /\ misses' = misses + 1
           /\ (BatchStep("acquire") /\ k \notin DOMAIN inflight) =>
                 is_owner'[t] /\ pc'[t] = "context"
           /\ BatchStep("context") => pc'[t] \in {"analyze", "fail"}
           /\ BatchStep("analyze") => llm_calls' = llm_calls + 1]_vars

\* three requests for one key: the first wrote the entry, the second was served
\* from it, and the third, after the entry's time ran out, missed, became owner
\* and had the analyzer called again
C30_Witness ==
    /\ Len(batch.events) = 3 /\ Len(batch.results) = 3
    /\ \A j \in 1..3 : batch.events[j] = batch.events[1] /\ batch.results[j] # None
    /\ hits = 1 /\ misses = 2 /\ writes = 2 /\ llm_calls = 2
    /\ now > batch.options.cache_ttl

\* C24: a ticket is settled once, by its owner: whenever an owner is about to
\* call set_result or set_exception its ticket is still pending, also when the
\* statement after set_result has failed.
C24_SettledOnce ==
    \A t \in Threads :
        (is_owner[t] /\ pc[t] \in {"publish", "fail"}) => futures[inflight_future[t]] = Pending

\* the thread that holds the ticket-table lock
HoldsLock(t) == inflight_lock = t
\* where a thread is inside one of the two with blocks
InTicketBlock(t) == pc[t] \in {"get_or_create", "compare_remove"}
\* the step is one of thread t
StepOf(t) == pc'[t] # pc[t]

\* C26: the ticket-table lock is held only inside the with blocks of
\* _get_or_create_inflight and _clear_inflight: a thread that holds it is in one of
\* the two blocks, and no step that reads or writes the cache, calls the enrichment
\* provider or the analyzer, settles a ticket or ends a wait is taken by the thread
\* holding the lock. (InMemoryCache has no lock of its own to hold with it.)
C26_LockDiscipline ==
    /\ [](\A t \in Threads : HoldsLock(t) => InTicketBlock(t))
    /\ [][\A t \in Threads :
             (/\ StepOf(t)
              /\ \/ cacheVars' # cacheVars
                 \/ pc[t] \in {"get", "set", "context", "analyze", "publish", "fail", "wait"})
             => ~HoldsLock(t) /\ inflight_lock' # t]_vars

\* one thread is inside the with block of _get_or_create_inflight while the other
\* is in the analyzer call as the owner of the ticket
C26_Witness ==
    \E t \in Threads, u \in Threads :
       /\ HoldsLock(t) /\ pc[t] = "get_or_create"
       /\ is_owner[u] /\ pc[u] = "analyze"

\* the ticket is settled and the thread that owns it is past its set_result or
\* set_exception
OwnerSettled(f) ==
    /\ futures[f].state \in {"RESULT", "EXCEPTION"}
    /\ \E o \in Threads :
          /\ is_owner[o] /\ inflight_future[o] = f
          /\ pc[o] \in {"clear", "fail", "compare_remove", "done"}

\* C23: when every thread that can take a step eventually takes one (so every
\* enrichment and analyzer call returns or raises), every process_error_log call
\* eventually returns or raises; in no reachable state is a call unfinished while
\* no thread can take a step; and a waiter leaves Future.result() only when the
\* owner of its ticket has set the result or the exception.
C23_WaiterLiveness ==
    /\ \A t \in Threads : <>(pc[t] = "done" /\ ret[t] # Nothing)
    /\ []((\E t \in Threads : pc[t] # "done") => \E u \in Threads : ENABLED LockStep(u))
    /\ [][\A t \in Threads :
             (pc[t] = "wait" /\ pc'[t] # "wait")
             => OwnerSettled(inflight_future[t]) /\ ret'[t] = FutureOutcome(inflight_future[t])]_vars

\* a waiter has been handed the failure of its owner, and both calls are over
C23_Witness ==
    \E t \in Threads, o \in Threads :
       /\ Waiter(t) /\ is_owner[o] /\ inflight_future[o] = inflight_future[t]
       /\ pc[t] = "done" /\ pc[o] = "done"
       /\ ret[t].kind = "raise" /\ ret[o].kind = "raise"

\* max(1, n)
AtLeastOne(n) == IF n >= 1 THEN n ELSE 1
\* how many entries a table of the given length holds above the capacity
Excess(length, capacity) == IF length > capacity THEN length - capacity ELSE 0

\* C31: max_size is at least 1 in every reachable state; set_max_size(n) makes it
\* max(1, n), removes exactly the entries above the new capacity and leaves at
\* most max(1, n); a set removes exactly the entries its write put above the
\* capacity.
C31_ClampAndEvict ==
    /\ [](max_size >= 1)
    /\ [][/\ \A n \in Sizes :
                CallSetMaxSize(n) =>
                   /\ max_size' = AtLeastOne(n)
                   /\ Cardinality(Gone(cache)) = Excess(Len(cache), AtLeastOne(n))
                   /\ Len(cache') = Len(cache) - Excess(Len(cache), AtLeastOne(n))
                   /\ Len(cache') <= AtLeastOne(n)
          /\ IsSet =>
                /\ Cardinality(Gone(Written)) = Excess(Len(Written), max_size)
                /\ Len(cache') = Len(Written) - Excess(Len(Written), max_size)]_vars

\* set_max_size has shrunk a cache built with max_size 2 and holding two
\* entries, and one entry was evicted
C31_Witness ==
    /\ last.op = "set_max_size" /\ Cardinality(last.removed) = 1
    /\ max_size = 1 /\ Len(cache) = 1 /\ writes = 2 /\ hits + misses = 0

\* C37: under FIFO a set of a key that is already in the table leaves every key
\* at its place in the eviction order, the overwritten key included, and evicts
\* nothing; and no call changes the relative order of two keys that stay in the
\* table. So an overwritten key that was first is still the first to be evicted.
C37_FifoOverwriteKeepsPlace ==
    [][eviction_policy = "FIFO" =>
         /\ (IsSet /\ Has(cache, last'.key)) =>
               /\ DictKeys(cache') = DictKeys(cache)
               /\ \A m \in 1..Len(cache) :
                     EvictedKeys(cache', access_order', m, "FIFO")
                       = EvictedKeys(cache, access_order, m, "FIFO")
               /\ Item(cache', last'.key).value = last'.value
         /\ \A a \in KeySet(cache) \cap KeySet(cache'), b \in KeySet(cache) \cap KeySet(cache') :
               Before(cache', a, b) <=> Before(cache, a, b)]_vars

\* under FIFO the first of two keys has just been overwritten (it expires later
\* than the key behind it), and it is the key the next eviction takes
C37_Witness ==
    /\ eviction_policy = "FIFO" /\ last.op = "set" /\ last.removed = {}
    /\ Len(cache) = 2 /\ cache[1].key = last.key
    /\ cache[1].expires_at > cache[2].expires_at
    /\ access_order[cache[1].key] > access_order[cache[2].key]
    /\ EvictedKeys(cache, access_order, 1, eviction_policy) = {last.key}

\* C40: whenever no cache method is running, the keys of access_order are the
\* keys of the entry table: every call that added or removed an entry has added
\* or removed the access time of the same key.
C40_AccessOrderMatchesTable ==
    (\A t \in Threads : frame[t].pc = "idle") => DOMAIN access_order = KeySet(cache)

\* thread t is an owner whose analyzer call returned a result and whose options
\* do not skip the cache
CachingOwner(t) == is_owner[t] /\ ~options[t].skip_cache /\ analysis[t].kind = "return"
\* the step settles the ticket thread t holds
Settles(t) ==
    /\ inflight_future[t] # 0
    /\ futures[inflight_future[t]].state = "PENDING"
    /\ futures'[inflight_future[t]].state # "PENDING"
\* the step takes the ticket of thread t out of the table
Removes(t) ==
    /\ cache_key[t] \in DOMAIN inflight /\ inflight[cache_key[t]] = inflight_future[t]
    /\ cache_key[t] \notin DOMAIN inflight'

\* C32: on the success path without skip_cache the owner writes the cache, then
\* settles the ticket, then removes it: when the ticket is settled the write has
\* been made and the ticket is still in the table; when the ticket leaves the
\* table it is settled with the result, and the entry of the key, unless it was
\* evicted or has expired since, holds that result. A request that reads the
\* cache while the entry is there and has not expired returns it without a
\* ticket and without an analyzer call.
C32_WriteSettleRemove ==
    [][\A t \in Threads :
          /\ (CachingOwner(t) /\ Steps(t) /\ Settles(t)) =>
                /\ "written" \in touched[t]
                /\ inflight[cache_key[t]] = inflight_future[t]
                /\ UNCHANGED <<inflight, cacheVars>>
                /\ futures'[inflight_future[t]] = [state |-> "RESULT", val |-> analysis[t].val]
          /\ (CachingOwner(t) /\ Steps(t) /\ Removes(t)) =>
                /\ "written" \in touched[t]
                /\ futures[inflight_future[t]] = [state |-> "RESULT", val |-> analysis[t].val]
                /\ Has(cache, cache_key[t]) => Item(cache, cache_key[t]).value = analysis[t].val
                /\ UNCHANGED <<futures, cacheVars>>
          /\ (pc[t] = "get" /\ Steps(t) /\ Has(cache, cache_key[t])
                /\ ~Expired(Item(cache, cache_key[t]))) =>
                /\ pc'[t] = "done"
                /\ ret'[t] = [kind |-> "return", val |-> Item(cache, cache_key[t]).value]
                /\ UNCHANGED <<inflight, futures, llm_calls>>]_vars

\* an owner has written, settled and released, its entry is in the table and has
\* not expired, and the other thread is about to read the cache for the same key
C32_Witness ==
    \E t \in Threads : \E u \in Threads \ {t} :
       /\ pc[t] = "done" /\ CachingOwner(t) /\ ret[t] = analysis[t]
       /\ cache_key[t] \notin DOMAIN inflight
       /\ Has(cache, cache_key[t]) /\ ~Expired(Item(cache, cache_key[t]))
       /\ Item(cache, cache_key[t]).value = ret[t].val
       /\ pc[u] = "get" /\ cache_key[u] = cache_key[t] /\ llm_calls = 1

\* the ticket is the one the table holds for some key
InTable(f) == \E k \in DOMAIN inflight : inflight[k] = f

\* C33: a ticket is settled before it leaves the ticket table: the step that
\* removes a ticket finds it holding a result or an exception, and in no state
\* does a waiter hold a pending ticket that is not in the table.
C33_SettledBeforeRemoved ==
    /\ [](\A w \in Threads :
             (Waiter(w) /\ futures[inflight_future[w]].state = "PENDING")
                => (InTable(inflight_future[w])
                      /\ inflight[cache_key[w]] = inflight_future[w]))
    /\ [][\A t \in Threads :
             Removes(t) => /\ futures[inflight_future[t]].state \in {"RESULT", "EXCEPTION"}
                           /\ UNCHANGED futures]_vars

\* a waiter that has not yet returned holds a ticket that was settled with a
\* failure and has already left the table
C33_Witness ==
    \E w \in Threads :
       /\ Waiter(w) /\ pc[w] = "wait"
       /\ futures[inflight_future[w]].state = "EXCEPTION"
       /\ ~InTable(inflight_future[w])

\* the process_error_log call of thread t has started and has not yet returned or raised
InProgress(t) == pc[t] \notin {"idle", "done"}
\* the owner calls in progress
OwnersInProgress == {t \in Threads : InProgress(t) /\ is_owner[t]}

\* C34: whenever no process_error_log call is in progress the ticket table is
\* empty, and in every state every ticket in the table is the ticket of an owner
\* call in progress, one owner per ticket: the table never holds more tickets
\* than there are owner calls in progress.
C34_Quiescence ==
    /\ (\A t \in Threads : ~InProgress(t)) => DOMAIN inflight = {}
    /\ Cardinality(DOMAIN inflight) <= Cardinality(OwnersInProgress)
    /\ \A k \in DOMAIN inflight :
          \E t \in OwnersInProgress : cache_key[t] = k /\ inflight_future[t] = inflight[k]

\* both threads were owners (of tickets of their own), one call failed and the
\* other returned a result, both calls are over and the table is empty
C34_Witness ==
    /\ \A t \in Threads : pc[t] = "done" /\ is_owner[t]
    /\ \E t \in Threads, u \in Threads :
          /\ ret[t].kind = "raise" /\ ret[u].kind = "return"
          /\ inflight_future[t] # inflight_future[u]
    /\ DOMAIN inflight = {}

\* w waits, or has waited, on the ticket that o owns
WaitsOn(w, o) == Waiter(w) /\ is_owner[o] /\ inflight_future[o] = inflight_future[w]

\* C35: a waiter whose options do not skip the cache, on the ticket of an owner
\* whose options do, ends with the owner's outcome, and neither of the two writes
\* the cache: a cache write is a step of an owner whose own skip_cache is false,
\* whatever the options of the threads waiting on its ticket, and such an owner
\* that got a result has written before it settles its ticket.
C35_OwnerFlagDecides ==
    /\ [](\A w \in Threads, o \in Threads :
             (WaitsOn(w, o) /\ options[o].skip_cache /\ ~options[w].skip_cache) =>
                /\ "written" \notin touched[w] \cup touched[o]
                /\ writes = 0 /\ ~Has(cache, cache_key[o])
                /\ pc[w] = "done" => ret[w] = analysis[o])
    /\ [](\A t \in Threads :
             /\ "written" \in touched[t] => (is_owner[t] /\ ~options[t].skip_cache)
             /\ (CachingOwner(t) /\ pc[t] \in {"publish", "clear", "done"})
                   => "written" \in touched[t])
    /\ [][writes' # writes =>
             \E t \in Threads :
                /\ Steps(t) /\ pc[t] = "set" /\ is_owner[t] /\ ~options[t].skip_cache
                /\ Has(cache', cache_key[t])]_vars

\* the owner skipped the cache, the waiter did not (its get was a miss), both
\* have returned the same result and the cache is empty
C35_Witness ==
    \E w \in Threads, o \in Threads :
       /\ WaitsOn(w, o) /\ options[o].skip_cache /\ ~options[w].skip_cache
       /\ pc[w] = "done" /\ pc[o] = "done"
       /\ ret[o].kind = "return" /\ ret[w] = ret[o]
       /\ misses = 1 /\ cache = <<>>

\* the event being processed occurred earlier in the batch, and every earlier
\* occurrence failed
FailedBefore ==
    /\ \E j \in 1..Len(batch.results) : batch.events[j] = cache_key[BatchThread]
    /\ \A j \in 1..Len(batch.results) :
          batch.events[j] = cache_key[BatchThread] => batch.results[j] = None
\* the batch reads and writes the cache
Caching == ~batch.options.skip_cache
\* every event of the batch is the same one
OneEvent == \A j \in 1..Len(batch.events) : batch.events[j] = batch.events[1]

CallOver == openai.pc \in {"returned", "raised"}

\* C38: _call_openai makes at most max_retries (3) create() calls; it returns
\* the response of the first attempt that succeeds, every attempt before it
\* having failed, and makes no attempt after it; after max_retries failed
\* attempts it raises the error of the last one, having slept 1000 ms and
\* 2000 ms between them; and every call ends: it returns or raises.
C38_RetryTerminates ==
    /\ [](openai.tries <= MaxRetries /\ Len(openai.errors) <= MaxRetries)
    /\ [](openai.pc = "returned" =>
             /\ openai.out.kind = "return" /\ openai.out.val = Response(openai.messages)
             /\ openai.out.attempt = openai.tries
             /\ Len(openai.errors) = openai.tries - 1)
    /\ []((openai.pc = "raised" /\ openai.client = "client") =>
             /\ openai.tries = MaxRetries /\ Len(openai.errors) = MaxRetries
             /\ openai.out = [kind |-> "raise", val |-> openai.errors[MaxRetries], attempt |-> 0]
             /\ openai.slept = RetryDelayMs + 2 * RetryDelayMs)
    /\ [][CallOver => openai' = openai]_vars
    /\ <>CallOver

\* the third attempt succeeded after two failures and two sleeps
C38_Witness ==
    /\ openai.pc = "returned" /\ openai.tries = MaxRetries
    /\ Len(openai.errors) = 2 /\ openai.errors[1] # openai.errors[2]
    /\ openai.slept = 3 * RetryDelayMs

\* an SNS notification: a non-empty Records list in which every record carries
\* an Sns message and no body, and no key of an earlier branch
SnsEvent(ev) ==
    /\ "Records" \in ev.keys /\ "resourceLogs" \notin ev.keys /\ "logs" \notin ev.keys
    /\ ev.Records # <<>>
    /\ \A i \in 1..Len(ev.Records) : ev.Records[i].Sns # None /\ ev.Records[i].body = None

\* C39: an SNS notification reaches the SNS branch of _parse_event, and the
\* events returned are one per record whose message parses, in the order of the
\* records.
C39_SnsSupported ==
    (request.pc # "idle" /\ SnsEvent(request.event)) =>
        /\ request.branch = "sns"
        /\ Len(request.error_events) =
              Cardinality({i \in 1..Len(request.event.Records) :
                              request.event.Records[i].Sns \in {"otel", "plain"}})
        /\ \A j \in 1..Len(request.error_events) : request.error_events[j].via = "Sns"
====
